---- MODULE Spec2Model ----
(***************************************************************************)
(* The generic repository (src/src/crud/base_crud.py) and its filter      *)
(* caster (src/src/utils/model_cast.py) over a transactional session.     *)
(*                                                                         *)
(* Python strings whose content the code inspects (filter values, the     *)
(* order argument, names) are sequences of one-character strings; column  *)
(* names and class names are identifiers and stay TLA+ strings.  A Python *)
(* value is a tagged record, so that the string "25" and the integer 25   *)
(* are different values until cast_filter converts one into the other.    *)
(***************************************************************************)
EXTENDS Integers, Sequences, FiniteSets, TLC

VARIABLES model, store, tx, nextId, clock, last, calls

vars == <<model, store, tx, nextId, clock, last, calls>>

(***************************************************************************)
(* Bounds of the model.                                                    *)
(***************************************************************************)
\* the autoincrement key stops at MaxId: at most MaxId rows are ever created
MaxId == 2
\* datetime.now() takes the values 0..MaxClock
MaxClock == 1
\* the listing specification creates at most MaxRows rows and calls get_list
\* with skip in 0..MaxSkip and limit in 0..MaxLimit
MaxRows == 3
MaxSkip == 2
MaxLimit == 3

\* the key no row ever has (the tests' 999)
AbsentPk == 999

(***************************************************************************)
(* Python values.                                                          *)
(***************************************************************************)
NoneV == [t |-> "None"]
IntV(n) == [t |-> "int", v |-> n]
BoolV(b) == [t |-> "bool", v |-> b]
StrV(s) == [t |-> "str", v |-> s]
DtV(d) == [t |-> "datetime", v |-> d]
\* the float mant / 10^scale, mant not divisible by 10 unless scale = 0
FloatV(mant, scale) == [t |-> "float", v |-> <<mant, scale>>]

UpperChars == <<"A","B","C","D","E","F","G","H","I","J","K","L","M",
                "N","O","P","Q","R","S","T","U","V","W","X","Y","Z">>
LowerChars == <<"a","b","c","d","e","f","g","h","i","j","k","l","m",
                "n","o","p","q","r","s","t","u","v","w","x","y","z">>
DigitChars == <<"0","1","2","3","4","5","6","7","8","9">>

\* str.lower(), one character
LowerChar(c) ==
    IF \E i \in DOMAIN UpperChars : UpperChars[i] = c
    THEN LowerChars[CHOOSE i \in DOMAIN UpperChars : UpperChars[i] = c]
    ELSE c

\* str.lower()
Lower(s) == [i \in DOMAIN s |-> LowerChar(s[i])]

IsDigit(c) == \E i \in DOMAIN DigitChars : DigitChars[i] = c
DigitVal(c) == (CHOOSE i \in DOMAIN DigitChars : DigitChars[i] = c) - 1

RECURSIVE DigitsVal(_)
DigitsVal(s) ==
    IF s = <<>> THEN 0
    ELSE 10 * DigitsVal(SubSeq(s, 1, Len(s) - 1)) + DigitVal(s[Len(s)])

AllDigits(s) == s # <<>> /\ \A i \in DOMAIN s : IsDigit(s[i])

\* str(n) of an f-string, for n >= 0
RECURSIVE IntToStr(_)
IntToStr(n) ==
    IF n < 10 THEN <<DigitChars[n + 1]>>
    ELSE IntToStr(n \div 10) \o <<DigitChars[(n % 10) + 1]>>

\* the pieces of a formatted message: literal text, and the text of a value
Lit(s) == [lit |-> s]
Fmt(s) == [fmt |-> s]
\* the name of a column or of a class, as the message shows it
Name(s) == [name |-> s]
\* the backquote character, which a TLA+ string cannot hold
Backquote == [lit |-> "BACKQUOTE"]

Ok(v) == [ok |-> TRUE, val |-> v]
Raise(e, m, w) == [ok |-> FALSE, exc |-> e, msg |-> m, from |-> w]

(***************************************************************************)
(* model_cast.py: the casters.                                             *)
(***************************************************************************)
\* int(value): an optional sign and decimal digits
CastToInt(s) ==
    LET signed == s # <<>> /\ s[1] \in {"-", "+"}
        body   == IF signed THEN SubSeq(s, 2, Len(s)) ELSE s
    IN  IF AllDigits(body)
        THEN Ok(IntV(IF signed /\ s[1] = "-" THEN 0 - DigitsVal(body)
                     ELSE DigitsVal(body)))
        ELSE Raise("ValueError", <<Lit("invalid literal for int() with base 10: "), Fmt(s)>>, "int")

RECURSIVE NormFloat(_, _)
NormFloat(mant, scale) ==
    IF scale > 0 /\ mant % 10 = 0 THEN NormFloat(mant \div 10, scale - 1)
    ELSE FloatV(mant, scale)

\* float(value): an optional sign, decimal digits and at most one point
\* (exponents, "inf" and "nan" are not among the inputs drawn)
CastToFloat(s) ==
    LET signed == s # <<>> /\ s[1] \in {"-", "+"}
        body   == IF signed THEN SubSeq(s, 2, Len(s)) ELSE s
        dots   == {i \in DOMAIN body : body[i] = "."}
        dot    == IF dots = {} THEN Len(body) + 1 ELSE CHOOSE i \in dots : TRUE
        whole  == SubSeq(body, 1, dot - 1)
        frac   == SubSeq(body, dot + 1, Len(body))
        sgn    == IF signed /\ s[1] = "-" THEN 0 - 1 ELSE 1
    IN  IF /\ Cardinality(dots) <= 1
           /\ whole \o frac # <<>>
           /\ \A i \in DOMAIN (whole \o frac) : IsDigit((whole \o frac)[i])
        THEN Ok(NormFloat(sgn * DigitsVal(whole \o frac), Len(frac)))
        ELSE Raise("ValueError", <<Lit("could not convert string to float: "), Fmt(s)>>, "float")

TRUE_VALUES == {<<"t","r","u","e">>, <<"1">>, <<"y","e","s">>, <<"y">>, <<"t">>}
FALSE_VALUES == {<<"f","a","l","s","e">>, <<"0">>, <<"n","o">>, <<"n">>, <<"f">>}

\* mutant: bool(value), true for every string that is not empty
CastToBoolTruthy(s) == Ok(BoolV(s # <<>>))

CastToBool(s) ==
    LET val_str == Lower(s)
    IN  IF val_str \in TRUE_VALUES THEN Ok(BoolV(TRUE))
        ELSE IF val_str \in FALSE_VALUES THEN Ok(BoolV(FALSE))
        ELSE Raise("ValueError", <<Lit("Cannot convert to boolean: "), Fmt(s)>>, "_cast_to_bool")

\* str(value)
CastToStr(s) == Ok(StrV(s))

\* the longest run of digits s starts with
DigitPrefix(s) ==
    CHOOSE k \in 0..Len(s) :
        /\ \A i \in 1..k : IsDigit(s[i])
        /\ (k < Len(s) => ~IsDigit(s[k + 1]))

\* s as digit runs separated by the characters of seps, in that order;
\* k is the length of the digit run s starts with
RECURSIVE ParseFieldsAt(_, _, _)
ParseFieldsAt(s, seps, k) ==
    IF seps = <<>>
    THEN [ok |-> AllDigits(s), val |-> <<s>>]
    ELSE IF k = 0 \/ k >= Len(s) \/ s[k + 1] # seps[1]
         THEN [ok |-> FALSE, val |-> <<>>]
         ELSE [ok  |-> ParseFieldsAt(SubSeq(s, k + 2, Len(s)), Tail(seps),
                                     DigitPrefix(SubSeq(s, k + 2, Len(s)))).ok,
               val |-> <<SubSeq(s, 1, k)>>
                       \o ParseFieldsAt(SubSeq(s, k + 2, Len(s)), Tail(seps),
                                        DigitPrefix(SubSeq(s, k + 2, Len(s)))).val]

ParseFields(s, seps) == ParseFieldsAt(s, seps, DigitPrefix(s))

IsLeap(y) == (y % 4 = 0 /\ y % 100 # 0) \/ y % 400 = 0
DaysIn(y, m) ==
    IF m = 2 THEN (IF IsLeap(y) THEN 29 ELSE 28)
    ELSE IF m \in {4, 6, 9, 11} THEN 30 ELSE 31

FormatSeparators(fmt) ==
    IF fmt = "%Y-%m-%d %H:%M:%S" THEN <<"-", "-", " ", ":", ":">> ELSE <<"-", "-">>

\* the value of field i of the parsed fields f, 0 for a field the format lacks
FieldVal(f, i) == IF i <= Len(f) THEN DigitsVal(f[i]) ELSE 0

\* the date and time the fields are, when they are one
FieldsToDatetime(s, f) ==
    IF /\ Len(f[1]) = 4
       /\ \A i \in 2..Len(f) : Len(f[i]) <= 2
       /\ FieldVal(f, 1) >= 1
       /\ FieldVal(f, 2) \in 1..12
       /\ FieldVal(f, 3) \in 1..DaysIn(FieldVal(f, 1), FieldVal(f, 2))
       /\ FieldVal(f, 4) \in 0..23
       /\ FieldVal(f, 5) \in 0..59
       /\ FieldVal(f, 6) \in 0..61
    THEN Ok(DtV(<<FieldVal(f, 1), FieldVal(f, 2), FieldVal(f, 3),
                  FieldVal(f, 4), FieldVal(f, 5), FieldVal(f, 6)>>))
    ELSE Raise("ValueError", <<Lit("time data does not match format "), Fmt(s)>>,
               "strptime")

StrptimeParsed(s, p) ==
    IF p.ok THEN FieldsToDatetime(s, p.val)
    ELSE Raise("ValueError", <<Lit("time data does not match format "), Fmt(s)>>,
               "strptime")

\* datetime.strptime(value, fmt) for the two formats of _DATETIME_FORMATS:
\* %Y is four digits, the other fields one or two
Strptime(s, fmt) == StrptimeParsed(s, ParseFields(s, FormatSeparators(fmt)))

DATETIME_FORMATS == <<"%Y-%m-%d %H:%M:%S", "%Y-%m-%d">>

\* the loop over _DATETIME_FORMATS from format i on; r is format i's result
RECURSIVE CastToDatetimeFrom(_, _, _)
CastToDatetimeFrom(s, i, r) ==
    IF r.ok THEN r
    ELSE IF i >= Len(DATETIME_FORMATS)
    THEN Raise("ValueError",
               <<Lit("Cannot convert '"), Fmt(s),
                 Lit("' to datetime. Use one of formats: ")>>,
               "_cast_to_datetime")
    ELSE CastToDatetimeFrom(s, i + 1, Strptime(s, DATETIME_FORMATS[i + 1]))

\* mutant: the first format only
CastToDatetimeFirstFormat(s) == Strptime(s, DATETIME_FORMATS[1])

CastToDatetime(s) == CastToDatetimeFrom(s, 1, Strptime(s, DATETIME_FORMATS[1]))


(***************************************************************************)
(* The entities: Sample (models.py) and the tests' TestUser, the latter    *)
(* without the two columns no repository operation names (email,           *)
(* created_at).  Each column: name, type class, nullable, unique, and the  *)
(* default an INSERT gives it ("none", "true" or "now").                   *)
(***************************************************************************)
Col(n, ty, nullable, unique, default) ==
    [name |-> n, type |-> ty, nullable |-> nullable, unique |-> unique,
     default |-> default]

SampleColumns ==
    << Col("id", "Integer", FALSE, TRUE, "none"),
       Col("name", "String", FALSE, TRUE, "none"),
       Col("description", "Text", TRUE, FALSE, "none") >>

TestUserColumns ==
    << Col("id", "Integer", FALSE, TRUE, "none"),
       Col("name", "String", FALSE, FALSE, "none"),
       Col("age", "Integer", TRUE, FALSE, "none"),
       Col("is_active", "Boolean", TRUE, FALSE, "true"),
       Col("updated_at", "DateTime", TRUE, FALSE, "now"),
       Col("deleted_at", "DateTime", TRUE, FALSE, "none") >>

Models == {"Sample", "TestUser"}

\* the columns declared with onupdate=datetime.now
OnUpdate(m) == IF m = "TestUser" THEN {"updated_at"} ELSE {}

\* the UPDATE of a changed row: a column declared with onupdate and not set
\* by the caller gets the current time (taken here at the time of the call)
Touched(m, row, now) ==
    [col \in DOMAIN row |-> IF col \in OnUpdate(m) THEN now ELSE row[col]]

\* the entity of the caster's unit tests
MockUserColumns ==
    << Col("id", "Integer", FALSE, TRUE, "none"),
       Col("name", "String", TRUE, FALSE, "none"),
       Col("is_active", "Boolean", TRUE, FALSE, "none"),
       Col("score", "Float", TRUE, FALSE, "none"),
       Col("created_at", "DateTime", TRUE, FALSE, "none") >>

Columns(m) ==
    IF m = "Sample" THEN SampleColumns
    ELSE IF m = "MockUser" THEN MockUserColumns
    ELSE TestUserColumns

ColumnNames(m) == {Columns(m)[i].name : i \in DOMAIN Columns(m)}

ColumnOf(m, key) == Columns(m)[CHOOSE i \in DOMAIN Columns(m) : Columns(m)[i].name = key]

\* hasattr(obj, name)
HasAttr(m, name) == name \in ColumnNames(m)

\* inspect(model).primary_key[0].name
PrimaryKeyName(m) == "id"


\* datetime.now()
Now(c) == DtV(<<2025, 1, 1, 0, 0, c>>)

(***************************************************************************)
(* model_cast.py: cast_filter.  A mapping is the sequence of its           *)
(* <<key, value>> items in insertion order, the order the loop visits.     *)
(***************************************************************************)
NULL_TOKENS == {<<"n","u","l","l">>, <<"n","o","n","e">>}

\* CASTING_MAP.get(type_class): the caster applied, or no caster
HasCaster(ty) == ty \in {"Integer", "Float", "Boolean", "DateTime", "String"}

ApplyCaster(ty, s) ==
    CASE ty = "Integer"  -> CastToInt(s)
      [] ty = "Float"    -> CastToFloat(s)
      [] ty = "Boolean"  -> CastToBool(s)
      [] ty = "DateTime" -> CastToDatetime(s)
      [] OTHER           -> CastToStr(s)

UnknownKey(m, key) ==
    Raise("AttributeError",
          <<Lit("Filter key '"), Name(key), Lit("' does not exist in model '"),
            Name(m), Lit("'.")>>,
          "cast_filter")

InvalidValue(key) ==
    Raise("ValueError",
          <<Lit("Invalid value for '"), Name(key), Lit("'. Please check the format.")>>,
          "cast_filter")

\* mutant: the caster's own error let through
CaughtPassThrough(key, r) == r

\* the try / except around caster(value); r is the caster's result
Caught(key, r) == IF r.ok THEN r ELSE InvalidValue(key)

\* mutant: the null tokens looked for only after the caster lookup
CastStringCasterFirst(key, ty, s) ==
    IF ~HasCaster(ty) THEN Ok(StrV(s))
    ELSE IF Lower(s) \in NULL_TOKENS THEN Ok(NoneV)
    ELSE Caught(key, ApplyCaster(ty, s))

\* a string value of a declared column of type class ty
CastString(key, ty, s) ==
    IF Lower(s) \in NULL_TOKENS THEN Ok(NoneV)
    ELSE IF ~HasCaster(ty) THEN Ok(StrV(s))
    ELSE Caught(key, ApplyCaster(ty, s))

\* mutant: the value looked at before the key
CastItemValueFirst(m, key, value) ==
    IF value.t # "str" THEN Ok(value)
    ELSE IF Lower(value.v) \in NULL_TOKENS THEN Ok(NoneV)
    ELSE IF key \notin ColumnNames(m) THEN UnknownKey(m, key)
    ELSE CastString(key, ColumnOf(m, key).type, value.v)

\* mutant: a value that is no string turned into its text
CastItemStringified(m, key, value) ==
    IF key \notin ColumnNames(m) THEN UnknownKey(m, key)
    ELSE IF value.t = "int" THEN Ok(StrV(IntToStr(value.v)))
    ELSE IF value.t # "str" THEN Ok(value)
    ELSE CastString(key, ColumnOf(m, key).type, value.v)

\* one item of the loop: the value stored under key, or the failure
CastItem(m, key, value) ==
    IF key \notin ColumnNames(m) THEN UnknownKey(m, key)
    ELSE IF value.t # "str" THEN Ok(value)
    ELSE CastString(key, ColumnOf(m, key).type, value.v)

\* the loop from item i on, r being item i's result
RECURSIVE CastFilterFrom(_, _, _, _, _)
CastFilterFrom(m, filters, i, casted, r) ==
    IF ~r.ok THEN r
    ELSE IF i = Len(filters) THEN Ok(Append(casted, <<filters[i][1], r.val>>))
    ELSE CastFilterFrom(m, filters, i + 1, Append(casted, <<filters[i][1], r.val>>),
                        CastItem(m, filters[i + 1][1], filters[i + 1][2]))

cast_filter(m, filters) ==
    IF filters = <<>> THEN Ok(<<>>)
    ELSE CastFilterFrom(m, filters, 1, <<>>, CastItem(m, filters[1][1], filters[1][2]))

Keys(mapping) == {mapping[i][1] : i \in DOMAIN mapping}
ValueAt(mapping, key) ==
    mapping[CHOOSE i \in DOMAIN mapping : mapping[i][1] = key][2]

\* cast_filter with its mappings as objects.  ref says which object each of
\* the function's two names refers to and obj holds every object's items;
\* "arg" is the mapping the caller passed.

\* mapping[key] = value
SetItem(mapping, key, value) ==
    IF key \in Keys(mapping)
    THEN [i \in DOMAIN mapping |->
             IF mapping[i][1] = key THEN <<key, value>> ELSE mapping[i]]
    ELSE Append(mapping, <<key, value>>)

\* mutant: casted_filters = filters, the argument filled in place
CastedFiltersAliased(filters) ==
    [ref |-> [filters |-> "arg", casted_filters |-> "arg"],
     obj |-> [o \in {"arg"} |-> filters]]

\* casted_filters = {}
CastedFilters(filters) ==
    [ref |-> [filters |-> "arg", casted_filters |-> "new"],
     obj |-> [o \in {"arg", "new"} |-> IF o = "arg" THEN filters ELSE <<>>]]

\* the loop over filters.items() from item i on: every assignment is to
\* the object casted_filters refers to, which is the one returned
RECURSIVE CastFilterLoop(_, _, _, _)
CastFilterLoop(m, items, i, heap) ==
    IF i > Len(items)
    THEN [res |-> Ok([t |-> "dict", v |-> heap.obj[heap.ref.casted_filters],
                      id |-> heap.ref.casted_filters]),
          obj |-> heap.obj]
    ELSE IF ~CastItem(m, items[i][1], items[i][2]).ok
    THEN [res |-> CastItem(m, items[i][1], items[i][2]), obj |-> heap.obj]
    ELSE CastFilterLoop(m, items, i + 1,
             [heap EXCEPT !.obj[heap.ref.casted_filters] =
                 SetItem(@, items[i][1], CastItem(m, items[i][1], items[i][2]).val)])

\* the call: its result, and the objects as the call leaves them
cast_filter_call(m, filters) == CastFilterLoop(m, filters, 1, CastedFilters(filters))

(***************************************************************************)
(* The session.  store is what is committed; tx is what the session's     *)
(* open transaction sees (store plus the pending changes); nextId is the   *)
(* table's key sequence.  A row is a function from column names to values. *)
(***************************************************************************)
Entity(row) == [t |-> "entity", v |-> row]
ListV(total, items) == [t |-> "list", total |-> total, items |-> items]

Outcome(res, st, t, nid, log) ==
    [res |-> res, store |-> st, tx |-> t, nextId |-> nid, log |-> log]

\* Result.scalar_one_or_none()
scalar_one_or_none(rows) ==
    IF rows = {} THEN Ok(NoneV)
    ELSE IF Cardinality(rows) = 1 THEN Ok(Entity(CHOOSE r \in rows : TRUE))
    ELSE Raise("MultipleResultsFound",
               <<Lit("Multiple rows were found when one or none was required")>>,
               "scalar_one_or_none")

\* select(model).where(pk == key)
SelectByPk(m, rows, pk) == {r \in rows : r[PrimaryKeyName(m)] = IntV(pk)}

\* the rows a query with these (cast) equality predicates selects
Where(m, rows, casted) ==
    {r \in rows : \A i \in DOMAIN casted :
                      HasAttr(m, casted[i][1]) => r[casted[i][1]] = casted[i][2]}

\* mutant: a backend that checks NOT NULL only
ViolatesNotNull(m, rows, row) ==
    \E i \in DOMAIN Columns(m) :
        ~Columns(m)[i].nullable /\ row[Columns(m)[i].name] = NoneV

\* the constraints the backend checks when a row is written
Violates(m, rows, row) ==
    \E i \in DOMAIN Columns(m) :
        LET c == Columns(m)[i]
        IN  \/ ~c.nullable /\ row[c.name] = NoneV
            \/ c.unique /\ \E r \in rows : r[c.name] = row[c.name]

IntegrityError ==
    Raise("IntegrityError", <<Lit("constraint failed")>>, "commit")


(***************************************************************************)
(* ORDER BY: the backend's comparison of two column values.                *)
(***************************************************************************)
CharOrder == <<" ", "-", ".", "/">> \o DigitChars \o <<":", "@">>
             \o UpperChars \o <<"_">> \o LowerChars
CharCode(c) == CHOOSE i \in DOMAIN CharOrder : CharOrder[i] = c

\* lexicographic order of two sequences of numbers
RECURSIVE SeqLess(_, _)
SeqLess(a, b) ==
    IF b = <<>> THEN FALSE
    ELSE IF a = <<>> THEN TRUE
    ELSE IF Head(a) # Head(b) THEN Head(a) < Head(b)
    ELSE SeqLess(Tail(a), Tail(b))

Codes(s) == [i \in DOMAIN s |-> CharCode(s[i])]

RECURSIVE Pow10(_)
Pow10(n) == IF n = 0 THEN 1 ELSE 10 * Pow10(n - 1)

\* a < b for two non-null values of one column
ValueLess(a, b) ==
    CASE a.t = "int"      -> a.v < b.v
      [] a.t = "bool"     -> ~a.v /\ b.v
      [] a.t = "str"      -> SeqLess(Codes(a.v), Codes(b.v))
      [] a.t = "datetime" -> SeqLess(a.v, b.v)
      [] a.t = "float"    -> a.v[1] * Pow10(b.v[2]) < b.v[1] * Pow10(a.v[2])
      [] OTHER            -> FALSE

\* mutant: the direction ignored
OrderedByAscending(rows, col, desc) == {q \in [1..Cardinality(rows) -> rows] :
    /\ \A i, j \in DOMAIN q : i # j => q[i] # q[j]
    /\ \A i, j \in DOMAIN q :
          (i < j /\ q[i][col] # NoneV /\ q[j][col] # NoneV) =>
              ~ValueLess(q[j][col], q[i][col])}

\* all listings of the rows without repetition
Listings(rows) ==
    {q \in [1..Cardinality(rows) -> rows] :
        \A i, j \in DOMAIN q : i # j => q[i] # q[j]}

\* q is in the order ORDER BY col ASC (desc = FALSE) or DESC (desc = TRUE)
\* gives; rows equal on col come in any order, and the null values come all
\* first or all last, as the backend has it
InOrder(q, col, desc) ==
    \E nullsFirst \in BOOLEAN :
        \A i, j \in DOMAIN q :
            i < j =>
              LET a == q[i][col]
                  b == q[j][col]
              IN  IF a = NoneV \/ b = NoneV
                  THEN a = b \/ (IF nullsFirst THEN a = NoneV ELSE b = NoneV)
                  ELSE IF desc THEN ~ValueLess(a, b) ELSE ~ValueLess(b, a)

OrderedBy(rows, col, desc) == {q \in Listings(rows) : InOrder(q, col, desc)}

\* mutant: a limit of 0 taken as no limit
OffsetLimitZeroUnlimited(q, off, lim) ==
    SubSeq(q, off + 1, IF lim # 0 /\ off + lim < Len(q) THEN off + lim ELSE Len(q))

\* query.offset(off).limit(lim) over an ordered result
OffsetLimit(q, off, lim) ==
    SubSeq(q, off + 1, IF off + lim < Len(q) THEN off + lim ELSE Len(q))

(***************************************************************************)
(* base_crud.py: BaseRepository.  Each operation maps the session state    *)
(* ss = [store, tx, nextId] to its outcome: the result (a value or an      *)
(* exception), the session state it leaves, and log, the session methods   *)
(* it called, in order.                                                    *)
(***************************************************************************)
Session(st, t, nid) == [store |-> st, tx |-> t, nextId |-> nid]

Unchanged(ss, res, log) == Outcome(res, ss.store, ss.tx, ss.nextId, log)

\* session.commit() of pending changes that satisfy the constraints
Committed(ss, t, nid, res, log) == Outcome(res, t, t, nid, log)

\* session.commit() failing in its flush: the transaction is rolled back
FlushFailed(ss, log) == Outcome(IntegrityError, ss.store, ss.store, ss.nextId, log)

NotFoundMessage(m, pk) ==
    <<Lit("Object with primary key "), Backquote, Fmt(IntToStr(pk)), Backquote,
      Lit(" not found in "), Name(m), Lit(".")>>

\* the query with one equality predicate per cast filter
Filtered(m, rows, casted_filters) ==
    IF casted_filters.ok THEN Ok(Where(m, rows, casted_filters.val))
    ELSE casted_filters

\* mutant: rows marked as deleted left out of every query
_apply_filters_live(m, rows, filters) ==
    Filtered(m, {r \in rows : "deleted_at" \notin DOMAIN r \/ r["deleted_at"] = NoneV},
             cast_filter(m, filters))

\* mutant: the predicates compare with the values as given, not as cast
_apply_filters_uncast(m, rows, filters) ==
    IF cast_filter(m, filters).ok THEN Ok(Where(m, rows, filters))
    ELSE cast_filter(m, filters)

\* _apply_filters: the filtered query, or cast_filter's failure
_apply_filters(m, rows, filters) == Filtered(m, rows, cast_filter(m, filters))

get_by_pk(m, ss, pk) ==
    Unchanged(ss, scalar_one_or_none(SelectByPk(m, ss.tx, pk)), <<"execute">>)

async_get_by_pk(m, ss, pk) ==
    Unchanged(ss, scalar_one_or_none(SelectByPk(m, ss.tx, pk)), <<"execute">>)

\* db.execute(query).scalar_one_or_none()
ExecuteOne(ss, query) ==
    IF ~query.ok THEN Unchanged(ss, query, <<>>)
    ELSE Unchanged(ss, scalar_one_or_none(query.val), <<"execute">>)

get_one(m, ss, filters) == ExecuteOne(ss, _apply_filters(m, ss.tx, filters))

\* result = await db.execute(query); result.scalar_one_or_none()
AsyncExecuteOne(ss, query) ==
    IF ~query.ok THEN Unchanged(ss, query, <<>>)
    ELSE Unchanged(ss, scalar_one_or_none(query.val), <<"execute">>)

async_get_one(m, ss, filters) == AsyncExecuteOne(ss, _apply_filters(m, ss.tx, filters))

\* the message of get_list's ValueError
InvalidOrder(order) ==
    <<Lit("Invalid order: "), Fmt(order), Lit(". Use 'asc' or 'desc'.")>>

\* the message of async_get_list's ValueError
AsyncInvalidOrder(order) ==
    <<Lit("Invalid order: "), Backquote, Fmt(order), Backquote,
      Lit(". Use 'asc' or 'desc'.")>>

ASC == <<"a","s","c">>
DESC == <<"d","e","s","c">>

\* order_by or self._primary_key_name
OrderColumn(m, order_by) ==
    IF order_by = NoneV THEN PrimaryKeyName(m) ELSE order_by.v

NoAttribute(m, name) ==
    Raise("AttributeError",
          <<Lit("type object '"), Name(m), Lit("' has no attribute '"), Name(name),
            Lit("'")>>,
          "getattr")

\* mutant: the count taken after pagination
ListPageCountsPage(m, ss, skip, limit, desc, column, base_query) ==
    IF ~base_query.ok THEN {Unchanged(ss, base_query, <<>>)}
    ELSE IF ~HasAttr(m, column)
    THEN {Unchanged(ss, NoAttribute(m, column), <<"execute">>)}
    ELSE {Unchanged(ss,
                    Ok(ListV(Len(OffsetLimit(q, skip * limit, limit)),
                             OffsetLimit(q, skip * limit, limit))),
                    <<"execute", "execute">>) :
             q \in OrderedBy(base_query.val, column, desc)}

\* mutant: skip taken as a row offset
ListPageRowOffset(m, ss, skip, limit, desc, column, base_query) ==
    IF ~base_query.ok THEN {Unchanged(ss, base_query, <<>>)}
    ELSE IF ~HasAttr(m, column)
    THEN {Unchanged(ss, NoAttribute(m, column), <<"execute">>)}
    ELSE {Unchanged(ss,
                    Ok(ListV(Cardinality(base_query.val), OffsetLimit(q, skip, limit))),
                    <<"execute", "execute">>) :
             q \in OrderedBy(base_query.val, column, desc)}

\* get_list from the count query on: the outcomes it can have, one for every
\* order the backend may give to rows that are equal on the ordering column
ListPage(m, ss, skip, limit, desc, column, base_query) ==
    IF ~base_query.ok THEN {Unchanged(ss, base_query, <<>>)}
    ELSE IF ~HasAttr(m, column)
    THEN {Unchanged(ss, NoAttribute(m, column), <<"execute">>)}
    ELSE {Unchanged(ss,
                    Ok(ListV(Cardinality(base_query.val),
                             OffsetLimit(q, skip * limit, limit))),
                    <<"execute", "execute">>) :
             q \in OrderedBy(base_query.val, column, desc)}

\* mutant: the filters cast before the order is checked
get_list_casts_first(m, ss, skip, limit, order, order_by, filters) ==
    IF ~cast_filter(m, filters).ok THEN {Unchanged(ss, cast_filter(m, filters), <<>>)}
    ELSE IF Lower(order) \notin {ASC, DESC}
    THEN {Unchanged(ss, Raise("ValueError", InvalidOrder(order), "get_list"), <<>>)}
    ELSE ListPage(m, ss, skip, limit, Lower(order) = DESC, OrderColumn(m, order_by),
                  _apply_filters(m, ss.tx, filters))

get_list(m, ss, skip, limit, order, order_by, filters) ==
    IF Lower(order) \notin {ASC, DESC}
    THEN {Unchanged(ss, Raise("ValueError", InvalidOrder(order), "get_list"), <<>>)}
    ELSE ListPage(m, ss, skip, limit, Lower(order) = DESC, OrderColumn(m, order_by),
                  _apply_filters(m, ss.tx, filters))

AsyncListPage(m, ss, skip, limit, desc, column, base_query) ==
    IF ~base_query.ok THEN {Unchanged(ss, base_query, <<>>)}
    ELSE IF ~HasAttr(m, column)
    THEN {Unchanged(ss, NoAttribute(m, column), <<"execute">>)}
    ELSE {Unchanged(ss,
                    Ok(ListV(Cardinality(base_query.val),
                             OffsetLimit(q, skip * limit, limit))),
                    <<"execute", "execute">>) :
             q \in OrderedBy(base_query.val, column, desc)}

async_get_list(m, ss, skip, limit, order, order_by, filters) ==
    IF Lower(order) \notin {ASC, DESC}
    THEN {Unchanged(ss, Raise("ValueError", AsyncInvalidOrder(order), "async_get_list"),
                    <<>>)}
    ELSE AsyncListPage(m, ss, skip, limit, Lower(order) = DESC,
                       OrderColumn(m, order_by), _apply_filters(m, ss.tx, filters))

\* self.model(**casted_data) as the INSERT writes it: the key from the
\* sequence when none is given, the column default where no value is given
NewRow(m, casted_data, nid, now) ==
    [col \in ColumnNames(m) |->
        IF col = PrimaryKeyName(m)
             /\ (col \notin Keys(casted_data) \/ ValueAt(casted_data, col) = NoneV)
        THEN IntV(nid)
        ELSE IF col \in Keys(casted_data) THEN ValueAt(casted_data, col)
        ELSE IF ColumnOf(m, col).default = "true" THEN BoolV(TRUE)
        ELSE IF ColumnOf(m, col).default = "now" THEN now
        ELSE NoneV]

KeyGenerated(m, casted_data) ==
    \/ PrimaryKeyName(m) \notin Keys(casted_data)
    \/ ValueAt(casted_data, PrimaryKeyName(m)) = NoneV

\* mutant: create without its commit
AddRefreshOnly(m, ss, db_obj, nid) ==
    IF Violates(m, ss.tx, db_obj) THEN FlushFailed(ss, <<"add", "flush">>)
    ELSE Outcome(Ok(Entity(db_obj)), ss.store, ss.tx \cup {db_obj}, nid,
                 <<"add", "flush", "refresh">>)

\* db.add(db_obj); db.commit(); db.refresh(db_obj)
AddCommitRefresh(m, ss, db_obj, nid) ==
    IF Violates(m, ss.tx, db_obj) THEN FlushFailed(ss, <<"add", "commit">>)
    ELSE Committed(ss, ss.tx \cup {db_obj}, nid, Ok(Entity(db_obj)),
                   <<"add", "commit", "refresh">>)

\* create after the cast
CreateCasted(m, ss, now, casted_data) ==
    IF ~casted_data.ok THEN Unchanged(ss, casted_data, <<>>)
    ELSE AddCommitRefresh(m, ss, NewRow(m, casted_data.val, ss.nextId, now),
                          IF KeyGenerated(m, casted_data.val) THEN ss.nextId + 1
                          ELSE ss.nextId)

create(m, ss, now, item_data) == CreateCasted(m, ss, now, cast_filter(m, item_data))

\* mutant: the commit left out
AsyncAddWithoutCommit(m, ss, db_obj, nid) ==
    IF Violates(m, ss.tx, db_obj) THEN FlushFailed(ss, <<"add", "flush">>)
    ELSE Outcome(Ok(Entity(db_obj)), ss.store, ss.tx \cup {db_obj}, nid,
                 <<"add", "flush", "refresh">>)

\* db.add(db_obj); await db.commit(); await db.refresh(db_obj)
AsyncAddCommitRefresh(m, ss, db_obj, nid) ==
    IF Violates(m, ss.tx, db_obj) THEN FlushFailed(ss, <<"add", "commit">>)
    ELSE Committed(ss, ss.tx \cup {db_obj}, nid, Ok(Entity(db_obj)),
                   <<"add", "commit", "refresh">>)

AsyncCreateCasted(m, ss, now, casted_data) ==
    IF ~casted_data.ok THEN Unchanged(ss, casted_data, <<>>)
    ELSE AsyncAddCommitRefresh(m, ss, NewRow(m, casted_data.val, ss.nextId, now),
                               IF KeyGenerated(m, casted_data.val) THEN ss.nextId + 1
                               ELSE ss.nextId)

async_create(m, ss, now, item_data) ==
    AsyncCreateCasted(m, ss, now, cast_filter(m, item_data))

\* mutant: updated_at left as it was
AssignedWithoutTimestamp(m, db_obj, casted_data, now) ==
    [col \in ColumnNames(m) |->
        IF col \in Keys(casted_data) THEN ValueAt(casted_data, col)
        ELSE db_obj[col]]

\* the setattr loop, then updated_at
Assigned(m, db_obj, casted_data, now) ==
    [col \in ColumnNames(m) |->
        IF col = "updated_at" THEN now
        ELSE IF col \in Keys(casted_data) THEN ValueAt(casted_data, col)
        ELSE db_obj[col]]

\* db.commit(); db.refresh(db_obj) with db_obj changed into new
\* mutant: a commit that writes the updated row and nothing else pending
CommitRefreshRowOnly(m, ss, db_obj, new) ==
    IF Violates(m, ss.tx \ {db_obj}, new) THEN FlushFailed(ss, <<"execute", "commit">>)
    ELSE Outcome(Ok(Entity(new)),
                 {r \in ss.store : r["id"] # new["id"]} \cup {new},
                 (ss.tx \ {db_obj}) \cup {new}, ss.nextId,
                 <<"execute", "commit", "refresh">>)

CommitRefresh(m, ss, db_obj, new) ==
    IF Violates(m, ss.tx \ {db_obj}, new) THEN FlushFailed(ss, <<"execute", "commit">>)
    ELSE Committed(ss, (ss.tx \ {db_obj}) \cup {new}, ss.nextId, Ok(Entity(new)),
                   <<"execute", "commit", "refresh">>)

\* mutant: updated_at assigned before the mapping is cast
UpdateCastedAfterTimestamp(m, ss, now, db_obj, casted_data) ==
    IF ~casted_data.ok
    THEN Outcome(casted_data, ss.store,
                 (ss.tx \ {db_obj}) \cup {Assigned(m, db_obj, <<>>, now)},
                 ss.nextId, <<"execute">>)
    ELSE CommitRefresh(m, ss, db_obj, Assigned(m, db_obj, casted_data.val, now))

\* update after the cast
UpdateCasted(m, ss, now, db_obj, casted_data) ==
    IF ~casted_data.ok THEN Unchanged(ss, casted_data, <<"execute">>)
    ELSE CommitRefresh(m, ss, db_obj, Assigned(m, db_obj, casted_data.val, now))

\* update after get_by_pk
UpdateLoaded(m, ss, now, pk, db_obj, update_data) ==
    IF db_obj = NoneV THEN Unchanged(ss, Ok(NoneV), <<"execute">>)
    ELSE UpdateCasted(m, ss, now, db_obj.v, cast_filter(m, update_data))

update(m, ss, now, pk, update_data) ==
    UpdateLoaded(m, ss, now, pk, get_by_pk(m, ss, pk).res.val, update_data)

\* await db.commit(); await db.refresh(db_obj) with db_obj changed into new
AsyncCommitRefresh(m, ss, db_obj, new) ==
    IF Violates(m, ss.tx \ {db_obj}, new) THEN FlushFailed(ss, <<"execute", "commit">>)
    ELSE Committed(ss, (ss.tx \ {db_obj}) \cup {new}, ss.nextId, Ok(Entity(new)),
                   <<"execute", "commit", "refresh">>)

AsyncUpdateCasted(m, ss, now, db_obj, casted_data) ==
    IF ~casted_data.ok THEN Unchanged(ss, casted_data, <<"execute">>)
    ELSE AsyncCommitRefresh(m, ss, db_obj, Assigned(m, db_obj, casted_data.val, now))

\* mutant: the absent key reported as in update
AsyncUpdateLoadedReturnsNone(m, ss, now, pk, db_obj, update_data) ==
    IF db_obj = NoneV THEN Unchanged(ss, Ok(NoneV), <<"execute">>)
    ELSE AsyncUpdateCasted(m, ss, now, db_obj.v, cast_filter(m, update_data))

AsyncUpdateLoaded(m, ss, now, pk, db_obj, update_data) ==
    IF db_obj = NoneV
    THEN Unchanged(ss, Raise("ValueError", NotFoundMessage(m, pk), "async_update"),
                   <<"execute">>)
    ELSE AsyncUpdateCasted(m, ss, now, db_obj.v, cast_filter(m, update_data))

async_update(m, ss, now, pk, update_data) ==
    AsyncUpdateLoaded(m, ss, now, pk, async_get_by_pk(m, ss, pk).res.val, update_data)

\* mutant: delete removing every row
DeleteLoadedAll(ss, db_obj) ==
    IF db_obj = NoneV THEN Unchanged(ss, Ok(BoolV(FALSE)), <<"execute">>)
    ELSE Outcome(Ok(BoolV(TRUE)), ss.store, {}, ss.nextId, <<"execute", "delete">>)

\* mutant: delete committing as async_delete does
DeleteLoadedCommits(ss, db_obj) ==
    IF db_obj = NoneV THEN Unchanged(ss, Ok(BoolV(FALSE)), <<"execute">>)
    ELSE Committed(ss, ss.tx \ {db_obj.v}, ss.nextId, Ok(BoolV(TRUE)),
                   <<"execute", "delete", "commit">>)

\* delete after get_by_pk
DeleteLoaded(ss, db_obj) ==
    IF db_obj = NoneV THEN Unchanged(ss, Ok(BoolV(FALSE)), <<"execute">>)
    ELSE Outcome(Ok(BoolV(TRUE)), ss.store, ss.tx \ {db_obj.v}, ss.nextId,
                 <<"execute", "delete">>)

delete(m, ss, pk) == DeleteLoaded(ss, get_by_pk(m, ss, pk).res.val)

\* mutant: the absent key raised as in async_update
AsyncDeleteLoadedRaises(ss, db_obj) ==
    IF db_obj = NoneV
    THEN Unchanged(ss, Raise("ValueError", <<Lit(" not found in ")>>, "async_delete"),
                   <<"execute">>)
    ELSE Committed(ss, ss.tx \ {db_obj.v}, ss.nextId, Ok(BoolV(TRUE)),
                   <<"execute", "delete", "commit">>)

AsyncDeleteLoaded(ss, db_obj) ==
    IF db_obj = NoneV THEN Unchanged(ss, Ok(BoolV(FALSE)), <<"execute">>)
    ELSE Committed(ss, ss.tx \ {db_obj.v}, ss.nextId, Ok(BoolV(TRUE)),
                   <<"execute", "delete", "commit">>)

async_delete(m, ss, pk) == AsyncDeleteLoaded(ss, async_get_by_pk(m, ss, pk).res.val)

\* db_obj.deleted_at = datetime.now()
MarkDeleted(db_obj, now) == [db_obj EXCEPT !["deleted_at"] = now]

\* mutant: the row removed instead of marked
SoftDeleteLoadedRemoves(m, ss, now, db_obj) ==
    IF db_obj = NoneV THEN Unchanged(ss, Ok(BoolV(FALSE)), <<"execute">>)
    ELSE IF HasAttr(m, "deleted_at")
    THEN Outcome(Ok(BoolV(TRUE)), ss.store, ss.tx \ {db_obj.v}, ss.nextId,
                 <<"execute">>)
    ELSE Unchanged(ss, Ok(BoolV(FALSE)), <<"execute">>)

\* soft_delete after get_by_pk
SoftDeleteLoaded(m, ss, now, db_obj) ==
    IF db_obj = NoneV THEN Unchanged(ss, Ok(BoolV(FALSE)), <<"execute">>)
    ELSE IF HasAttr(m, "deleted_at")
    THEN Outcome(Ok(BoolV(TRUE)), ss.store,
                 (ss.tx \ {db_obj.v}) \cup {Touched(m, MarkDeleted(db_obj.v, now), now)},
                 ss.nextId, <<"execute">>)
    ELSE Unchanged(ss, Ok(BoolV(FALSE)), <<"execute">>)

soft_delete(m, ss, now, pk) ==
    SoftDeleteLoaded(m, ss, now, get_by_pk(m, ss, pk).res.val)

\* mutant: the commit issued whether or not the entity has deleted_at
AsyncSoftDeleteLoadedCommits(m, ss, now, db_obj) ==
    IF db_obj = NoneV THEN Unchanged(ss, Ok(BoolV(FALSE)), <<"execute">>)
    ELSE IF HasAttr(m, "deleted_at")
    THEN Committed(ss,
                   (ss.tx \ {db_obj.v}) \cup {Touched(m, MarkDeleted(db_obj.v, now), now)},
                   ss.nextId, Ok(BoolV(TRUE)), <<"execute", "commit", "refresh">>)
    ELSE Committed(ss, ss.tx, ss.nextId, Ok(BoolV(FALSE)), <<"execute", "commit">>)

AsyncSoftDeleteLoaded(m, ss, now, db_obj) ==
    IF db_obj = NoneV THEN Unchanged(ss, Ok(BoolV(FALSE)), <<"execute">>)
    ELSE IF HasAttr(m, "deleted_at")
    THEN Committed(ss,
                   (ss.tx \ {db_obj.v}) \cup {Touched(m, MarkDeleted(db_obj.v, now), now)},
                   ss.nextId, Ok(BoolV(TRUE)), <<"execute", "commit", "refresh">>)
    ELSE Unchanged(ss, Ok(BoolV(FALSE)), <<"execute">>)

async_soft_delete(m, ss, now, pk) ==
    AsyncSoftDeleteLoaded(m, ss, now, async_get_by_pk(m, ss, pk).res.val)

(***************************************************************************)
(* The inputs the callers draw from.                                       *)
(***************************************************************************)
Alice == StrV(<<"A","l","i","c","e">>)
Bob == StrV(<<"B","o","b">>)
Eve == StrV(<<"E","v","e">>)

PkInputs == (1..MaxId) \cup {AbsentPk}

\* a mapping with an undeclared field
GhostField == <<"ghost_field", StrV(<<"x">>)>>

CreateInputs(m) ==
    IF m = "Sample"
    THEN { << <<"name", Alice>>, <<"description", StrV(<<"f","i","r","s","t">>)>> >>,
           << <<"name", Bob>> >>,
           << <<"description", StrV(<<"N","o","n","e">>)>> >>,
           << <<"name", Eve>>, <<"id", StrV(<<"1","x">>)>> >>,
           << <<"name", Eve>>, GhostField >> }
    ELSE { << <<"name", Alice>>, <<"age", IntV(25)>>, <<"is_active", BoolV(TRUE)>> >>,
           << <<"name", Bob>>, <<"age", StrV(<<"3","0">>)>>,
              <<"is_active", StrV(<<"f","a","l","s","e">>)>> >>,
           << <<"age", IntV(25)>> >>,
           << <<"name", Eve>>, <<"age", StrV(<<"a","b","c">>)>> >>,
           << <<"name", Eve>>, GhostField >> }

UpdateInputs(m) ==
    IF m = "Sample"
    THEN { << <<"description", StrV(<<"n","e","w">>)>> >>,
           << <<"name", Bob>> >>,
           << <<"description", StrV(<<"n","e","w">>)>>, <<"id", StrV(<<"1","x">>)>> >>,
           << GhostField >> }
    ELSE { << <<"age", StrV(<<"3","0">>)>> >>,
           << <<"name", StrV(<<"n","u","l","l">>)>> >>,
           << <<"is_active", StrV(<<"N","O">>)>>, <<"age", StrV(<<"a","b","c">>)>> >>,
           << GhostField >> }

FilterInputs(m) ==
    IF m = "Sample"
    THEN { <<>>,
           << <<"name", Alice>> >>,
           << <<"id", StrV(<<"1","x">>)>> >>,
           << GhostField >> }
    ELSE { <<>>,
           << <<"is_active", StrV(<<"t","r","u","e">>)>> >>,
           << <<"age", StrV(<<"2","5">>)>>, <<"is_active", StrV(<<"T","r","u","e">>)>> >>,
           << <<"age", StrV(<<"a","b","c">>)>> >>,
           << GhostField >> }

OrderInputs == { ASC, <<"D","E","S","C">>, <<"s","i","d","e","w","a","y","s">> }

Attr(name) == [t |-> "str", v |-> name]

OrderByInputs(m) ==
    IF m = "Sample" THEN {NoneV, Attr("name"), Attr("description"), Attr("ghost_field")}
    ELSE {NoneV, Attr("age"), Attr("ghost_field")}

(***************************************************************************)
(* The state machine: one action per repository call, and the caller's     *)
(* commit and rollback of the session.  last is the call that has just     *)
(* returned to the caller: its name, arguments, result and the session     *)
(* methods it used; the caller takes the result (Returned) before its next *)
(* call.                                                                   *)
(***************************************************************************)
NoArgs == [pk |-> NoneV, data |-> <<>>]

Idle == [op |-> "idle", args |-> NoArgs, res |-> Ok(NoneV), log |-> <<>>]

Call(op, args, o) == [op |-> op, args |-> args, res |-> o.res, log |-> o.log]

SS == Session(store, tx, nextId)

Do(op, args, o) ==
    /\ last = Idle
    /\ store' = o.store
    /\ tx' = o.tx
    /\ nextId' = o.nextId
    /\ last' = Call(op, args, o)
    /\ UNCHANGED <<model, clock, calls>>

Init ==
    /\ model \in Models
    /\ store = {}
    /\ tx = {}
    /\ nextId = 1
    /\ clock = 0
    /\ last = Idle
    /\ calls = <<>>

GetByPk ==
    \E pk \in PkInputs :
        Do("get_by_pk", [pk |-> pk], get_by_pk(model, SS, pk))

AsyncGetByPk ==
    \E pk \in PkInputs :
        Do("async_get_by_pk", [pk |-> pk], async_get_by_pk(model, SS, pk))

GetOne ==
    \E f \in FilterInputs(model) :
        Do("get_one", [data |-> f], get_one(model, SS, f))

AsyncGetOne ==
    \E f \in FilterInputs(model) :
        Do("async_get_one", [data |-> f], async_get_one(model, SS, f))

ListArgs(skip, limit, order, order_by, f) ==
    [skip |-> skip, limit |-> limit, order |-> order, order_by |-> order_by,
     data |-> f]

GetListOver(skips, limits, orders, order_bys, filters) ==
    /\ last = Idle
    /\ \E skip \in skips, limit \in limits, order \in orders, order_by \in order_bys,
       f \in filters :
        \E o \in get_list(model, SS, skip, limit, order, order_by, f) :
            Do("get_list", ListArgs(skip, limit, order, order_by, f), o)

AsyncGetListOver(skips, limits, orders, order_bys, filters) ==
    /\ last = Idle
    /\ \E skip \in skips, limit \in limits, order \in orders, order_by \in order_bys,
       f \in filters :
        \E o \in async_get_list(model, SS, skip, limit, order, order_by, f) :
            Do("async_get_list", ListArgs(skip, limit, order, order_by, f), o)

\* the key sequence is bounded: a create that would pass MaxId is not drawn
CreateOver(bound) ==
    /\ nextId <= bound
    /\ \E d \in CreateInputs(model) :
           Do("create", [data |-> d], create(model, SS, Now(clock), d))

AsyncCreateOver(bound) ==
    /\ nextId <= bound
    /\ \E d \in CreateInputs(model) :
           Do("async_create", [data |-> d], async_create(model, SS, Now(clock), d))

Update ==
    \E pk \in PkInputs, d \in UpdateInputs(model) :
        Do("update", [pk |-> pk, data |-> d], update(model, SS, Now(clock), pk, d))

AsyncUpdate ==
    \E pk \in PkInputs, d \in UpdateInputs(model) :
        Do("async_update", [pk |-> pk, data |-> d],
           async_update(model, SS, Now(clock), pk, d))

Delete ==
    \E pk \in PkInputs :
        Do("delete", [pk |-> pk], delete(model, SS, pk))

AsyncDelete ==
    \E pk \in PkInputs :
        Do("async_delete", [pk |-> pk], async_delete(model, SS, pk))

SoftDelete ==
    \E pk \in PkInputs :
        Do("soft_delete", [pk |-> pk], soft_delete(model, SS, Now(clock), pk))

AsyncSoftDelete ==
    \E pk \in PkInputs :
        Do("async_soft_delete", [pk |-> pk],
           async_soft_delete(model, SS, Now(clock), pk))

\* session.rollback(): the pending changes are dropped
RolledBack(ss) == Outcome(Ok(NoneV), ss.store, ss.store, ss.nextId, <<"rollback">>)

\* session.commit() by the caller: the pending changes become durable
CallerCommitted(ss) == Outcome(Ok(NoneV), ss.tx, ss.tx, ss.nextId, <<"commit">>)

Rollback == Do("rollback", NoArgs, RolledBack(SS))

Commit == Do("commit", NoArgs, CallerCommitted(SS))

\* time passes
Tick ==
    /\ last = Idle
    /\ clock < MaxClock
    /\ clock' = clock + 1
    /\ UNCHANGED <<model, store, tx, nextId, last, calls>>

\* the caller has the result of its call
Returned ==
    /\ last # Idle
    /\ last' = Idle
    /\ UNCHANGED <<model, store, tx, nextId, clock, calls>>

Create == CreateOver(MaxId)
AsyncCreate == AsyncCreateOver(MaxId)
GetList ==
    GetListOver({0, 1}, {1}, {DESC, <<"s","i","d","e","w","a","y","s">>}, {NoneV},
                FilterInputs(model))
AsyncGetList ==
    AsyncGetListOver({0, 1}, {1}, {DESC, <<"s","i","d","e","w","a","y","s">>}, {NoneV},
                     FilterInputs(model))

Next ==
    \/ GetByPk \/ AsyncGetByPk
    \/ GetOne \/ AsyncGetOne
    \/ GetList \/ AsyncGetList
    \/ Create \/ AsyncCreate
    \/ Update \/ AsyncUpdate
    \/ Delete \/ AsyncDelete
    \/ SoftDelete \/ AsyncSoftDelete
    \/ Commit \/ Rollback
    \/ Returned
    \/ Tick

Spec == Init /\ [][Next]_vars


(***************************************************************************)
(* The listing specification: rows are created, then listed with every     *)
(* combination of the paging, ordering and filter arguments.               *)
(***************************************************************************)
CreateMany == CreateOver(MaxRows)

GetListWide ==
    GetListOver(0..MaxSkip, 0..MaxLimit, OrderInputs, OrderByInputs(model),
                FilterInputs(model))

AsyncGetListWide ==
    AsyncGetListOver(0..MaxSkip, 0..MaxLimit, OrderInputs, OrderByInputs(model),
                     FilterInputs(model))

\* get_list(db, **filters): skip, limit, order and order_by left to their
\* defaults
DefaultSkip == 0
DefaultLimit == 100
DefaultOrder == <<"d","e","s","c">>
DefaultOrderBy == NoneV

DefaultListArgs(f) ==
    [skip |-> DefaultSkip, limit |-> DefaultLimit, order |-> DefaultOrder,
     order_by |-> DefaultOrderBy, data |-> f, defaults |-> TRUE]

GetListDefault ==
    /\ last = Idle
    /\ \E f \in FilterInputs(model) :
        \E o \in get_list(model, SS, DefaultSkip, DefaultLimit, DefaultOrder,
                          DefaultOrderBy, f) :
            Do("get_list", DefaultListArgs(f), o)

AsyncGetListDefault ==
    /\ last = Idle
    /\ \E f \in FilterInputs(model) :
        \E o \in async_get_list(model, SS, DefaultSkip, DefaultLimit, DefaultOrder,
                                DefaultOrderBy, f) :
            Do("async_get_list", DefaultListArgs(f), o)

NextList ==
    \/ CreateMany
    \/ GetListWide \/ AsyncGetListWide
    \/ GetListDefault \/ AsyncGetListDefault
    \/ GetOne \/ AsyncGetOne
    \/ Returned

SpecList == Init /\ [][NextList]_vars

(***************************************************************************)
(* The caster specification: cast_filter is called on every mapping of up  *)
(* to MaxItems items, with distinct keys, over the entity's columns and an *)
(* undeclared key, and the values of CastValues.                           *)
(***************************************************************************)
MaxItems == 2

CastModels == {"MockUser", "Sample"}

CastKeys(m) == ColumnNames(m) \cup {"ghost_field"}

CastValues ==
    { StrV(<<"2","5">>), StrV(<<"1","2",".","5">>), StrV(<<"a","b","c">>),
      StrV(<<"Y","e","s">>), StrV(<<"N","U","L","L">>),
      StrV(<<"2","0","2","5","-","0","2","-","3","0">>),
      StrV(<<"2","0","2","5","-","0","1","-","0","2">>),
      StrV(<<"2","0","2","5","-","0","1","-","0","2"," ","0","3",":","0","4",":","0","5">>),
      IntV(7), NoneV }

\* the strings of the unit tests (null tokens, boolean tokens in both cases,
\* timestamps in and out of format) and some near them
EdgeValues ==
    { StrV(<<"n","u","l","l">>),
      StrV(<<"N","o","n","e">>),
      StrV(<<"n","o","n","e">>),
      StrV(<<"n","U","l","L">>),
      StrV(<<"t","r","u","e">>),
      StrV(<<"T","R","U","E">>),
      StrV(<<"1">>),
      StrV(<<"y","e","s">>),
      StrV(<<"Y","E","S">>),
      StrV(<<"y">>),
      StrV(<<"t">>),
      StrV(<<"T">>),
      StrV(<<"f","a","l","s","e">>),
      StrV(<<"F","A","L","S","E">>),
      StrV(<<"0">>),
      StrV(<<"n","o">>),
      StrV(<<"N","O">>),
      StrV(<<"n">>),
      StrV(<<"f">>),
      StrV(<<"F">>),
      StrV(<<"m","a","y","b","e">>),
      StrV(<<"2">>),
      StrV(<<"o","n">>),
      StrV(<<"2","0","2","3","-","1","2","-","2","5"," ","1","4",":","3","0",":","0","0">>),
      StrV(<<"2","0","2","3","-","1","2","-","2","5">>),
      StrV(<<"2","0","2","3","/","1","2","/","2","5">>),
      StrV(<<"i","n","v","a","l","i","d","-","d","a","t","e">>),
      StrV(<<"2","0","2","3","-","1","2","-","2","5"," ","1","4",":","3","0">>),
      StrV(<<"2","0","2","3","-","1","-","5"," ","1",":","2",":","3">>) }

\* every mapping of up to MaxItems items over CastValues, and every mapping
\* of one item over EdgeValues
CastInputs(m) ==
    {f \in UNION {[1..n -> CastKeys(m) \X CastValues] : n \in 0..MaxItems} :
        \A i, j \in DOMAIN f : i # j => f[i][1] # f[j][1]}
    \cup {<< <<k, v>> >> : k \in CastKeys(m), v \in EdgeValues}

InitCast ==
    /\ model \in CastModels
    /\ store = {}
    /\ tx = {}
    /\ nextId = 1
    /\ clock = 0
    /\ last = Idle
    /\ calls = <<>>

\* the mapping cast_filter returns, as a value the caller holds
DictV(r) == IF r.ok THEN Ok([t |-> "dict", v |-> r.val, id |-> "new"]) ELSE r

\* the caller passes the mapping f; data is what the mapping held at the
\* call and filters what the same object holds when the call has ended
CastFilterOn(f, c) ==
    Do("cast_filter", [data |-> f, filters |-> c.obj["arg"]], Unchanged(SS, c.res, <<>>))

CastFilter ==
    /\ last = Idle
    /\ \E f \in CastInputs(model) : CastFilterOn(f, cast_filter_call(model, f))

NextCast == CastFilter \/ Returned

SpecCast == InitCast /\ [][NextCast]_vars


(***************************************************************************)
(* The application.  server.py builds app; POST /sample/ runs              *)
(* create_sample_endpoint, which calls SampleService.create_new_sample on  *)
(* the session get_async_session opened for the request.  calls[c] is      *)
(* request c: where it stands (pc), its body (data), what the service gave *)
(* (res) and the response.  Up to MaxCalls requests are in progress at the *)
(* same time; each step between two awaits is one action.                  *)
(***************************************************************************)
MaxCalls == 2

\* fastapi.HTTPException(status_code, detail)
HTTPException(status_code, detail) ==
    [ok |-> FALSE, exc |-> "HTTPException", msg |-> detail, from |-> "route",
     status_code |-> status_code]

DuplicateError ==
    Raise("DuplicateError", <<Lit("Sample with this name already exists.")>>,
          "create_new_sample")

\* pydantic's ValidationError, a ValueError
ValidationError ==
    Raise("ValidationError", <<Lit("validation error for Sample")>>, "model_validate")

\* type(exc).__mro__ up to Exception (the classes between a library's
\* exception and Exception have no handler and are left out)
Mro(exc) ==
    IF exc \in {"NotFoundException", "DuplicateError", "InvalidOperationError"}
    THEN <<exc, "AppException", "Exception">>
    ELSE IF exc = "ValidationError" THEN <<exc, "ValueError", "Exception">>
    ELSE IF exc = "Exception" THEN <<exc>>
    ELSE <<exc, "Exception">>

JSONResponse(status_code, detail) ==
    [t |-> "response", status_code |-> status_code, detail |-> detail]

\* the handlers register_exception_handlers(app) adds to those app_ has
register_exception_handlers(app_) ==
    [cls \in DOMAIN app_ \cup {"NotFoundException", "DuplicateError",
                                "AppException", "Exception"} |->
        CASE cls = "NotFoundException" -> "not_found_exception_handler"
          [] cls = "DuplicateError"    -> "duplicate_exception_handler"
          [] cls = "AppException"      -> "app_exception_handler"
          [] cls = "Exception"         -> "unhandled_exception_handler"
          [] OTHER                     -> app_[cls]]

\* FastAPI(...): the handler every application has for HTTPException
create_app == [cls \in {"HTTPException"} |-> "http_exception_handler"]

\* app = create_app(), then @app.exception_handler(Exception);
\* register_exception_handlers is called nowhere
app ==
    [cls \in DOMAIN create_app \cup {"Exception"} |->
        IF cls = "Exception" THEN "unhandled_exception_handler" ELSE create_app[cls]]

\* the response the handler named gives for the exception exc
RunHandler(handler, exc) ==
    CASE handler = "not_found_exception_handler" -> JSONResponse(404, exc.msg)
      [] handler = "duplicate_exception_handler" -> JSONResponse(409, exc.msg)
      [] handler = "app_exception_handler"       -> JSONResponse(400, exc.msg)
      [] handler = "http_exception_handler"      -> JSONResponse(exc.status_code, exc.msg)
      [] OTHER -> JSONResponse(500, <<Lit("Internal Server Error")>>)

\* the handler of the first class of the exception's MRO that has one
LookupHandler(handlers, mro) ==
    handlers[mro[CHOOSE i \in DOMAIN mro :
                    /\ mro[i] \in DOMAIN handlers
                    /\ \A j \in 1..(i - 1) : mro[j] \notin DOMAIN handlers]]

\* create_sample_endpoint: a ValueError of the service becomes
\* HTTPException(400), every other exception leaves the route as it is
create_sample_endpoint(raised) ==
    IF \E i \in DOMAIN Mro(raised.exc) : Mro(raised.exc)[i] = "ValueError"
    THEN HTTPException(400, raised.msg)
    ELSE raised

\* the application's answer to an exception that left the route
Answer(handlers, exc) == RunHandler(LookupHandler(handlers, Mro(exc.exc)), exc)

\* SampleCreate.model_dump() of the request bodies drawn
SampleCreateInputs ==
    { << <<"name", n>>, <<"description", d>> >> :
          n \in {Alice, Bob}, d \in {NoneV, StrV(<<"f","i","r","s","t">>)} }

SampleSchema(row) == [t |-> "Sample", v |-> row]

NoCall == [pc |-> "idle", data |-> <<>>, res |-> Ok(NoneV), response |-> NoneV]

\* the session of a request: it has no pending changes of its own between
\* two repository calls, so that its view is the committed store
RequestSession == Session(store, store, nextId)

InitApp ==
    /\ model = "Sample"
    /\ store = {}
    /\ tx = {}
    /\ nextId = 1
    /\ clock = 0
    /\ last = Idle
    /\ calls = [c \in 1..MaxCalls |-> NoCall]

\* POST /sample/ arrives
Post(c) ==
    /\ calls[c].pc = "idle"
    /\ \E d \in SampleCreateInputs :
           calls' = [calls EXCEPT ![c] = [NoCall EXCEPT !.pc = "check", !.data = d]]
    /\ UNCHANGED <<model, store, tx, nextId, clock, last>>

\* create_new_sample up to its raise or its second await; existing is the
\* outcome of async_get_one(db_session, name=sample_data.name)
CheckedExisting(c, existing) ==
    calls' = [calls EXCEPT ![c] =
                 IF ~existing.res.ok
                 THEN [@ EXCEPT !.pc = "raised", !.res = existing.res]
                 ELSE IF existing.res.val # NoneV
                 THEN [@ EXCEPT !.pc = "raised", !.res = DuplicateError]
                 ELSE [@ EXCEPT !.pc = "create"]]

ExistenceCheck(c) ==
    /\ calls[c].pc = "check"
    /\ CheckedExisting(c, async_get_one("Sample", RequestSession,
                                        << <<"name", ValueAt(calls[c].data, "name")>> >>))
    /\ UNCHANGED <<model, store, tx, nextId, clock, last>>

\* await self.repository.async_create(db_session, **sample_data.model_dump());
\* created is its outcome
Inserted(c, created) ==
    /\ store' = created.store
    /\ nextId' = created.nextId
    /\ calls' = [calls EXCEPT ![c] =
                    [@ EXCEPT !.pc = IF created.res.ok THEN "created" ELSE "raised",
                              !.res = created.res]]

Insert(c) ==
    /\ calls[c].pc = "create"
    /\ Inserted(c, async_create("Sample", RequestSession, Now(clock), calls[c].data))
    /\ UNCHANGED <<model, tx, clock, last>>

\* sample_schema.Sample.model_validate(new_sample_model): the schema sets no
\* from_attributes, and whether the entity is accepted is pydantic's to
\* say: the call returns the Sample or raises ValidationError
Validate(c) ==
    /\ calls[c].pc = "created"
    /\ \/ calls' = [calls EXCEPT ![c] =
                        [@ EXCEPT !.pc = "returned",
                                  !.res = Ok(SampleSchema(calls[c].res.val.v))]]
       \/ calls' = [calls EXCEPT ![c] =
                        [@ EXCEPT !.pc = "raised", !.res = ValidationError]]
    /\ UNCHANGED <<model, store, tx, nextId, clock, last>>

\* the route returns (201) or the exception leaves it: get_async_session
\* rolls its session back, which has nothing pending, and the application
\* answers with the handler it has for the exception
Respond(c) ==
    /\ calls[c].pc \in {"returned", "raised"}
    /\ calls' = [calls EXCEPT ![c] =
                    [@ EXCEPT !.pc = "responded",
                              !.response =
                                  IF calls[c].res.ok
                                  THEN JSONResponse(201, calls[c].res.val)
                                  ELSE Answer(app, create_sample_endpoint(calls[c].res))]]
    /\ UNCHANGED <<model, store, tx, nextId, clock, last>>

\* the client has the response
Finish(c) ==
    /\ calls[c].pc = "responded"
    /\ calls' = [calls EXCEPT ![c] = NoCall]
    /\ UNCHANGED <<model, store, tx, nextId, clock, last>>

NextApp ==
    \E c \in 1..MaxCalls :
        \/ Post(c)
        \/ ExistenceCheck(c)
        \/ Insert(c)
        \/ Validate(c)
        \/ Respond(c)
        \/ Finish(c)

SpecApp == InitApp /\ [][NextApp]_vars


(***************************************************************************)
(* Properties.                                                             *)
(***************************************************************************)
Range(q) == {q[i] : i \in DOMAIN q}

\* the rows of the session's view that satisfy the (castable) filters f
Matching(f) == {r \in tx : \A i \in DOMAIN f :
                               r[f[i][1]] = cast_filter(model, f).val[i][2]}

Castable(f) == cast_filter(model, f).ok

\* the row with key pk, in a set of rows
RowsWithKey(rows, pk) == {r \in rows : r["id"] = IntV(pk)}

\* C1: get_one / async_get_one never fail because of the number of matching
\* rows: no row matching gives the absent value, two or more matching rows
\* give one of them.
C1_GetOneAnyNumberOfMatches ==
    (last.op \in {"get_one", "async_get_one"} /\ Castable(last.args.data)) =>
        /\ (Matching(last.args.data) = {} => last.res = Ok(NoneV))
        /\ (Cardinality(Matching(last.args.data)) >= 2 =>
               /\ last.res.ok
               /\ last.res.val \in {Entity(r) : r \in Matching(last.args.data)})

\* the operations that take a filter or field mapping
MappingOps ==
    {"get_one", "async_get_one", "get_list", "async_get_list",
     "create", "async_create", "update", "async_update"}

\* C2: a mapping with an undeclared field or an uncoercible value makes the
\* operation fail before any interaction with the session.
C2_CastFailureBeforeSession ==
    (last.op \in MappingOps /\ ~Castable(last.args.data)) =>
        /\ ~last.res.ok
        /\ last.log = <<>>

\* C3: with such a mapping the call ends with AttributeError or ValueError,
\* for every key; it never returns a normal result.
C3_CastFailureNeverDropped ==
    (last.op \in MappingOps /\ ~Castable(last.args.data)) =>
        /\ ~last.res.ok
        /\ last.res.exc \in {"AttributeError", "ValueError"}

\* a step that is a call of op
Calls(op) == last = Idle /\ last'.op = op

\* C4: update on a key that matches no row returns the absent value, and
\* async_update fails with a not-found ValueError whose message names the key
\* and the entity type; both leave the store and the transaction as they
\* were and commit nothing.
C4_UpdateAbsentKey ==
    [][ /\ (Calls("update") /\ RowsWithKey(tx, last'.args.pk) = {}) =>
              /\ last'.res = Ok(NoneV)
              /\ store' = store /\ tx' = tx
              /\ "commit" \notin Range(last'.log)
        /\ (Calls("async_update") /\ RowsWithKey(tx, last'.args.pk) = {}) =>
              /\ ~last'.res.ok
              /\ last'.res.exc = "ValueError"
              /\ Lit(" not found in ") \in Range(last'.res.msg)
              /\ Fmt(IntToStr(last'.args.pk)) \in Range(last'.res.msg)
              /\ Name(model) \in Range(last'.res.msg)
              /\ store' = store /\ tx' = tx
              /\ "commit" \notin Range(last'.log)
      ]_vars

C4_Witness ==
    /\ last.op = "async_update"
    /\ ~last.res.ok
    /\ last.res.from = "async_update"
    /\ store # {}

\* C5: when delete returns true nothing was committed: the row is still in
\* storage, gone only in the open transaction, and a rollback brings it back;
\* when async_delete returns true the removal is committed and a rollback
\* does not bring the row back.
C5_DeleteCommitTiming ==
    /\ (last.op = "delete" /\ last.res = Ok(BoolV(TRUE))) =>
          /\ "commit" \notin Range(last.log)
          /\ RowsWithKey(tx, last.args.pk) = {}
          /\ RowsWithKey(store, last.args.pk) # {}
          /\ RowsWithKey(RolledBack(SS).tx, last.args.pk) # {}
    /\ (last.op = "async_delete" /\ last.res = Ok(BoolV(TRUE))) =>
          /\ "commit" \in Range(last.log)
          /\ RowsWithKey(store, last.args.pk) = {}
          /\ RowsWithKey(RolledBack(SS).tx, last.args.pk) = {}

C5_Witness ==
    /\ last.op = "delete"
    /\ last.res = Ok(BoolV(TRUE))
    /\ RowsWithKey(store, last.args.pk) # {}
    /\ tx # {}


\* two results are the same value, or failures of the same kind
SameResult(r1, r2) ==
    IF r1.ok /\ r2.ok THEN r1 = r2
    ELSE ~r1.ok /\ ~r2.ok /\ r1.exc = r2.exc

\* the same result, the same store and the same pending changes
SameOutcome(a, b) ==
    /\ SameResult(a.res, b.res)
    /\ a.store = b.store
    /\ a.tx = b.tx
    /\ a.nextId = b.nextId

SameOutcomes(A, B) ==
    /\ \A a \in A : \E b \in B : SameOutcome(a, b)
    /\ \A b \in B : \E a \in A : SameOutcome(a, b)

Present(pk) == RowsWithKey(tx, pk) # {}

\* the blocking and the suspending form agree, from the current state, on
\* everything but delete of a present key, update of an absent key and
\* soft_delete
SameButDeleteUpdateSoftDelete ==
    /\ \A pk \in PkInputs :
          SameOutcome(get_by_pk(model, SS, pk), async_get_by_pk(model, SS, pk))
    /\ \A f \in FilterInputs(model) :
          SameOutcome(get_one(model, SS, f), async_get_one(model, SS, f))
    /\ \A skip \in 0..MaxSkip, limit \in 0..MaxLimit, order \in OrderInputs,
          order_by \in OrderByInputs(model), f \in FilterInputs(model) :
          SameOutcomes(get_list(model, SS, skip, limit, order, order_by, f),
                       async_get_list(model, SS, skip, limit, order, order_by, f))
    /\ \A d \in CreateInputs(model) :
          SameOutcome(create(model, SS, Now(clock), d),
                      async_create(model, SS, Now(clock), d))
    /\ \A pk \in PkInputs, d \in UpdateInputs(model) :
          Present(pk) =>
              SameOutcome(update(model, SS, Now(clock), pk, d),
                          async_update(model, SS, Now(clock), pk, d))
    /\ \A pk \in PkInputs :
          ~Present(pk) => SameOutcome(delete(model, SS, pk), async_delete(model, SS, pk))

\* the two differences: commit timing of delete, not-found report of update
TwoDifferences ==
    /\ \A pk \in PkInputs :
          Present(pk) => ~SameOutcome(delete(model, SS, pk), async_delete(model, SS, pk))
    /\ \A pk \in PkInputs, d \in UpdateInputs(model) :
          ~Present(pk) =>
              ~SameOutcome(update(model, SS, Now(clock), pk, d),
                           async_update(model, SS, Now(clock), pk, d))

\* C6 as stated: the blocking and the suspending forms agree except for
\* exactly two differences, commit timing of delete and not-found reporting
\* of update.
C6_EquivalentButTwo ==
    last = Idle =>
        /\ SameButDeleteUpdateSoftDelete
        /\ TwoDifferences
        /\ \A pk \in PkInputs :
              SameOutcome(soft_delete(model, SS, Now(clock), pk),
                          async_soft_delete(model, SS, Now(clock), pk))

\* C6 amended: there are exactly three differences, the third being commit
\* timing of soft_delete on a present key of an entity that declares
\* deleted_at.
C6_EquivalentButThree ==
    last = Idle =>
        /\ SameButDeleteUpdateSoftDelete
        /\ TwoDifferences
        /\ \A pk \in PkInputs :
              IF Present(pk) /\ HasAttr(model, "deleted_at")
              THEN /\ "commit" \notin Range(soft_delete(model, SS, Now(clock), pk).log)
                   /\ "commit" \in Range(async_soft_delete(model, SS, Now(clock), pk).log)
                   /\ (\E r \in RowsWithKey(tx, pk) : r["deleted_at"] # Now(clock)) =>
                          ~SameOutcome(soft_delete(model, SS, Now(clock), pk),
                                       async_soft_delete(model, SS, Now(clock), pk))
              ELSE SameOutcome(soft_delete(model, SS, Now(clock), pk),
                               async_soft_delete(model, SS, Now(clock), pk))

\* a blocking soft_delete has returned true and its change is not committed,
\* where async_soft_delete would have committed it
C6_Witness ==
    /\ last.op = "soft_delete"
    /\ last.res = Ok(BoolV(TRUE))
    /\ store # tx
    /\ ~SameOutcome(soft_delete(model, RolledBack(SS), Now(clock), last.args.pk),
                    async_soft_delete(model, RolledBack(SS), Now(clock), last.args.pk))


ListOps == {"get_list", "async_get_list"}

Min(a, b) == IF a < b THEN a ELSE b
Max(a, b) == IF a < b THEN b ELSE a

\* every outcome get_list and async_get_list can have from the current state
ListOutcomes(skip, limit, order, order_by, f) ==
    get_list(model, SS, skip, limit, order, order_by, f)
        \cup async_get_list(model, SS, skip, limit, order, order_by, f)

\* C7: totalCount is the number of rows that satisfy all the filters, the
\* same for every skip, limit, order and order_by.
C7_TotalCountIsMatchCount ==
    /\ (last.op \in ListOps /\ last.res.ok) =>
          last.res.val.total = Cardinality(Matching(last.args.data))
    /\ last = Idle =>
          \A f \in FilterInputs(model), skip \in 0..MaxSkip, limit \in 0..MaxLimit,
             order \in OrderInputs, order_by \in OrderByInputs(model) :
              \A o \in ListOutcomes(skip, limit, order, order_by, f) :
                  o.res.ok => o.res.val.total = Cardinality(Matching(f))

C7_Witness ==
    /\ last.op \in ListOps
    /\ last.res.ok
    /\ last.args.data # <<>>
    /\ last.res.val.total = 2
    /\ Len(last.res.val.items) = 1
    /\ Cardinality(tx) = 3

C9_ZeroLimitAndRoundTrip ==
    /\ (last.op \in ListOps /\ last.res.ok /\ last.args.limit = 0) =>
          /\ last.res.val.items = <<>>
          /\ last.res.val.total = Cardinality(Matching(last.args.data))
    /\ (last.op \in ListOps /\ last.res.ok /\ last.args.data = <<>>
           /\ last.args.skip = 0 /\ last.args.limit >= Cardinality(tx)) =>
          /\ last.res.val.total = Cardinality(tx)
          /\ Len(last.res.val.items) = Cardinality(tx)
          /\ Cardinality(tx) = nextId - 1

C9_Witness ==
    /\ last.op = "get_list"
    /\ last.res.ok
    /\ last.args.limit = 0
    /\ last.args.skip > 0
    /\ last.res.val.items = <<>>
    /\ last.res.val.total = 3

\* C10: order is accepted only when its lower-cased value is "asc" or
\* "desc"; any other value fails with a ValueError whose message holds the
\* value, before any query and before the filters are cast.
C10_OrderChecked ==
    last.op \in ListOps =>
        IF Lower(last.args.order) \in {ASC, DESC}
        THEN last.res.ok \/ last.res.from \notin ListOps
        ELSE /\ ~last.res.ok
             /\ last.res.exc = "ValueError"
             /\ last.res.from = last.op
             /\ Fmt(last.args.order) \in Range(last.res.msg)
             /\ last.log = <<>>

\* a bad order together with filters that cannot be cast
C10_Witness ==
    /\ last.op = "get_list"
    /\ Lower(last.args.order) \notin {ASC, DESC}
    /\ ~Castable(last.args.data)
    /\ ~last.res.ok
    /\ last.res.from = "get_list"
    /\ tx # {}


\* items is non-decreasing (desc = FALSE) or non-increasing (desc = TRUE) on
\* col, over the items that have a value there
SortedOn(items, col, desc) ==
    \A i, j \in DOMAIN items :
        (i < j /\ items[i][col] # NoneV /\ items[j][col] # NoneV) =>
            IF desc THEN ~ValueLess(items[i][col], items[j][col])
            ELSE ~ValueLess(items[j][col], items[i][col])

\* C11: the items are sorted on the order_by field, non-decreasing for
\* "asc" and non-increasing for "desc" in any letter case; without order_by
\* the field is the identifying key, and without order the direction is
\* descending.
C11_ItemsSorted ==
    (last.op \in ListOps /\ last.res.ok) =>
        /\ SortedOn(last.res.val.items,
                    IF last.args.order_by = NoneV THEN "id" ELSE last.args.order_by.v,
                    Lower(last.args.order) = <<"d","e","s","c">>)
        /\ "defaults" \in DOMAIN last.args =>
               SortedOn(last.res.val.items, "id", TRUE)

\* three rows listed with the defaults, the newest key first
C11_Witness ==
    /\ last.op \in ListOps
    /\ last.res.ok
    /\ "defaults" \in DOMAIN last.args
    /\ Len(last.res.val.items) = 3
    /\ last.res.val.items[1]["id"] = IntV(3)
    /\ last.res.val.items[3]["id"] = IntV(1)


\* row has, for every key of the filters f, the value the filter casts to
Satisfies(row, f) ==
    \A i \in DOMAIN f : row[f[i][1]] = cast_filter(model, f).val[i][2]

\* C12: filters are conjunctive equality predicates on cast values: every
\* item of get_list and the row of get_one has, for every filter key, the
\* cast filter value ("25" matches 25, "True" matches true), and no row
\* failing a filter is returned or counted.
C12_FiltersConjunctiveOnCastValues ==
    /\ (last.op \in ListOps /\ last.res.ok) =>
          /\ \A i \in DOMAIN last.res.val.items :
                /\ last.res.val.items[i] \in tx
                /\ Satisfies(last.res.val.items[i], last.args.data)
          /\ last.res.val.total =
                 Cardinality({r \in tx : Satisfies(r, last.args.data)})
          /\ last.args.data = << <<"age", StrV(<<"2","5">>)>>,
                                 <<"is_active", StrV(<<"T","r","u","e">>)>> >> =>
                 \A i \in DOMAIN last.res.val.items :
                     /\ last.res.val.items[i]["age"] = IntV(25)
                     /\ last.res.val.items[i]["is_active"] = BoolV(TRUE)
    /\ (last.op \in {"get_one", "async_get_one"} /\ last.res.ok
           /\ last.res.val # NoneV) =>
          /\ last.res.val.v \in tx
          /\ Satisfies(last.res.val.v, last.args.data)

\* age="25", is_active="True" lists the one row with 25 and true out of two
C12_Witness ==
    /\ last.op = "get_list"
    /\ last.res.ok
    /\ last.args.data = << <<"age", StrV(<<"2","5">>)>>,
                           <<"is_active", StrV(<<"T","r","u","e">>)>> >>
    /\ Len(last.res.val.items) = 1
    /\ last.res.val.total = 1
    /\ Cardinality(tx) = 2


\* the session after the step
SSNext == Session(store', tx', nextId')

\* a create or async_create step that returns the entity new: it commits,
\* the key of new is generated and fresh, the supplied fields have their
\* cast values, a get_by_pk with the key finds new, one row more
CreatedRoundTrip(new) ==
    /\ "commit" \in Range(last'.log)
    /\ store' = tx'
    /\ new["id"] # NoneV
    /\ \A r \in tx : r["id"] # new["id"]
    /\ \A i \in DOMAIN last'.args.data :
          new[last'.args.data[i][1]] = cast_filter(model, last'.args.data).val[i][2]
    /\ get_by_pk(model, SSNext, new["id"].v).res = Ok(Entity(new))
    /\ async_get_by_pk(model, SSNext, new["id"].v).res = Ok(Entity(new))
    /\ tx' = tx \cup {new}
    /\ Cardinality(tx') = Cardinality(tx) + 1

\* C13: create / async_create with valid fields commit the transaction and
\* return an entity with a generated, fresh key and the cast input values; a
\* following get_by_pk with that key gives the same values, and there is
\* exactly one row more.
C13_CreateRoundTrip ==
    [][ (Calls("create") \/ Calls("async_create")) =>
            IF last'.res.ok
            THEN last'.res.val.t = "entity" /\ CreatedRoundTrip(last'.res.val.v)
            ELSE \/ ~Castable(last'.args.data)
                 \/ last'.res.exc = "IntegrityError"
      ]_vars

\* a second row created from string values: "30" is stored as 30
C13_Witness ==
    /\ last.op = "create"
    /\ last.res.ok
    /\ <<"age", StrV(<<"3","0">>)>> \in Range(last.args.data)
    /\ last.res.val.v["age"] = IntV(30)
    /\ last.res.val.v["is_active"] = BoolV(FALSE)
    /\ last.res.val.v["id"] = IntV(2)
    /\ Cardinality(store) = 2


\* an update or async_update step that changes the row old into new
UpdatedInPlace(old, new) ==
    /\ new["id"] = old["id"]
    /\ \A i \in DOMAIN last'.args.data :
          last'.args.data[i][1] # "updated_at" =>
              new[last'.args.data[i][1]] = cast_filter(model, last'.args.data).val[i][2]
    /\ "updated_at" \in DOMAIN old =>
          /\ new["updated_at"] = Now(clock)
          /\ ~ValueLess(new["updated_at"], old["updated_at"])
    /\ \A c \in DOMAIN old :
          (c # "updated_at" /\ c \notin {last'.args.data[i][1] : i \in DOMAIN last'.args.data})
              => new[c] = old[c]
    /\ tx' = (tx \ {old}) \cup {new}
    /\ store' = tx'
    /\ "commit" \in Range(last'.log)

\* C14: update / async_update on an existing key with valid fields (the key
\* itself not among them) set each supplied field to its cast value, set
\* updated_at to the current time where the entity declares it, leave the
\* other fields and the other rows as they were, commit, and return the
\* refreshed entity with the same key.
C14_UpdateFrame ==
    [][ ((Calls("update") \/ Calls("async_update"))
            /\ RowsWithKey(tx, last'.args.pk) # {}) =>
            IF last'.res.ok
            THEN /\ last'.res.val.t = "entity"
                 /\ last'.res.val.v \in tx'
                 /\ \E old \in RowsWithKey(tx, last'.args.pk) :
                        UpdatedInPlace(old, last'.res.val.v)
            ELSE \/ ~Castable(last'.args.data)
                 \/ last'.res.exc = "IntegrityError"
      ]_vars

\* the second of two rows updated from the string "30" after time has passed
C14_Witness ==
    /\ last.op = "update"
    /\ last.res.ok
    /\ last.res.val # NoneV
    /\ model = "TestUser"
    /\ clock = 1
    /\ last.res.val.v["updated_at"] = Now(1)
    /\ last.res.val.v["age"] = IntV(30)
    /\ \E r \in tx : r["id"] # last.res.val.v["id"] /\ r["updated_at"] = Now(0)


\* in the session ss the key pk matches no row: get_by_pk gives the absent
\* value and a delete gives false, in both forms
GoneIn(ss, pk) ==
    /\ get_by_pk(model, ss, pk).res = Ok(NoneV)
    /\ async_get_by_pk(model, ss, pk).res = Ok(NoneV)
    /\ delete(model, ss, pk).res = Ok(BoolV(FALSE))
    /\ async_delete(model, ss, pk).res = Ok(BoolV(FALSE))

\* C15: delete / async_delete on a key that matches no row return false and
\* leave the store and the transaction as they were; on a key that matches a
\* row they return true and remove that row only; once the transaction is
\* committed a get_by_pk with the key gives the absent value and a second
\* delete gives false, and no later step brings the key back.
C15_DeleteEffect ==
    [][ /\ (Calls("delete") \/ Calls("async_delete")) =>
              IF RowsWithKey(tx, last'.args.pk) = {}
              THEN /\ last'.res = Ok(BoolV(FALSE))
                   /\ store' = store /\ tx' = tx
              ELSE /\ last'.res = Ok(BoolV(TRUE))
                   /\ tx' = tx \ RowsWithKey(tx, last'.args.pk)
                   /\ Cardinality(tx') = Cardinality(tx) - 1
                   /\ GoneIn(SSNext, last'.args.pk)
                   /\ LET c == CallerCommitted(SSNext)
                      IN  /\ RowsWithKey(c.store, last'.args.pk) = {}
                          /\ GoneIn(Session(c.store, c.tx, c.nextId), last'.args.pk)
        /\ \A pk \in 1..MaxId :
              (pk < nextId /\ RowsWithKey(store, pk) = {} /\ RowsWithKey(tx, pk) = {})
                  => (RowsWithKey(store', pk) = {} /\ RowsWithKey(tx', pk) = {})
      ]_vars

\* the blocking delete of one of two rows has been committed by the caller
C15_Witness ==
    /\ last.op = "commit"
    /\ store = tx
    /\ nextId = 3
    /\ Cardinality(store) = 1
    /\ \E pk \in 1..MaxId : RowsWithKey(store, pk) = {} /\ GoneIn(SS, pk)


\* a soft_delete or async_soft_delete step that marks the row old as new,
\* the fields in others being free to change
SoftDeleted(old, new, others) ==
    /\ last'.res = Ok(BoolV(TRUE))
    /\ new["deleted_at"] # NoneV
    /\ new["deleted_at"] = Now(clock)
    /\ \A c \in DOMAIN old : (c # "deleted_at" /\ c \notin others) => new[c] = old[c]
    /\ tx' = (tx \ {old}) \cup {new}
    /\ Cardinality(tx') = Cardinality(tx)
    /\ get_by_pk(model, SSNext, last'.args.pk).res = Ok(Entity(new))
    /\ async_get_by_pk(model, SSNext, last'.args.pk).res = Ok(Entity(new))
    /\ IF last'.op = "soft_delete"
       THEN "commit" \notin Range(last'.log) /\ store' = store
       ELSE "commit" \in Range(last'.log) /\ store' = tx'

\* a soft_delete or async_soft_delete step on a present key of an entity that
\* declares deleted_at
SoftDeleteStep ==
    /\ Calls("soft_delete") \/ Calls("async_soft_delete")
    /\ RowsWithKey(tx, last'.args.pk) # {}
    /\ "deleted_at" \in ColumnNames(model)

\* C16 as stated: soft_delete / async_soft_delete on an existing key of an
\* entity with deleted_at return true, set deleted_at to a timestamp and
\* keep the row, with all other fields unchanged; the blocking form issues
\* no commit, the suspending form commits.
C16_SoftDeleteOtherFieldsUnchanged ==
    [][ SoftDeleteStep =>
            \E old \in RowsWithKey(tx, last'.args.pk),
               new \in RowsWithKey(tx', last'.args.pk) : SoftDeleted(old, new, {})
      ]_vars

\* C16 amended: all other fields are unchanged except updated_at, which the
\* entity declares to be set to the current time on every update of the row.
C16_SoftDeleteKeepsRow ==
    [][ SoftDeleteStep =>
            \E old \in RowsWithKey(tx, last'.args.pk),
               new \in RowsWithKey(tx', last'.args.pk) :
                /\ SoftDeleted(old, new, {"updated_at"})
                /\ new["updated_at"] = Now(clock)
      ]_vars

\* a row created at one time and soft-deleted, uncommitted, at a later time
C16_Witness ==
    /\ last.op = "soft_delete"
    /\ last.res = Ok(BoolV(TRUE))
    /\ clock = 1
    /\ \E r \in RowsWithKey(tx, last.args.pk), r0 \in RowsWithKey(store, last.args.pk) :
          /\ r["deleted_at"] = Now(1)
          /\ r0["deleted_at"] = NoneV
          /\ r0["updated_at"] = Now(0)
          /\ r["updated_at"] = Now(1)


\* C17: soft_delete / async_soft_delete on an existing key of an entity that
\* does not declare deleted_at return false, raise nothing, change no field
\* of the row and issue no commit.
C17_SoftDeleteUnsupported ==
    [][ ((Calls("soft_delete") \/ Calls("async_soft_delete"))
            /\ RowsWithKey(tx, last'.args.pk) # {}
            /\ "deleted_at" \notin ColumnNames(model)) =>
            /\ last'.res = Ok(BoolV(FALSE))
            /\ tx' = tx
            /\ store' = store
            /\ "commit" \notin Range(last'.log)
      ]_vars

\* async_soft_delete of a present Sample row, with an uncommitted delete of
\* another row pending
C17_Witness ==
    /\ last.op = "async_soft_delete"
    /\ model = "Sample"
    /\ RowsWithKey(tx, last.args.pk) # {}
    /\ last.res = Ok(BoolV(FALSE))
    /\ store # tx


\* the operations that take a key, but for async_update
ByKeyOps ==
    {"get_by_pk", "update", "delete", "soft_delete",
     "async_get_by_pk", "async_delete", "async_soft_delete"}

\* C18: a key that matches no row is reported by the return value (the
\* absent value or false), never by an exception, in get_by_pk, update,
\* delete, soft_delete, async_get_by_pk, async_delete and async_soft_delete;
\* async_update is the only operation that raises for it.
C18_AbsentKeyByReturnValue ==
    [][ /\ (last = Idle /\ last'.op \in ByKeyOps
               /\ RowsWithKey(tx, last'.args.pk) = {}) =>
              /\ last'.res.ok
              /\ last'.res.val =
                     IF last'.op \in {"get_by_pk", "async_get_by_pk", "update"}
                     THEN NoneV ELSE BoolV(FALSE)
        /\ (Calls("async_update") /\ RowsWithKey(tx, last'.args.pk) = {}) =>
              ~last'.res.ok
      ]_vars

\* async_soft_delete of a key that was never used, with rows in the table
C18_Witness ==
    /\ last.op = "async_soft_delete"
    /\ last.args.pk = AbsentPk
    /\ last.res = Ok(BoolV(FALSE))
    /\ Cardinality(tx) = 2


\* the items of the mapping f whose key is not a column of the entity
Undeclared(f) == {i \in DOMAIN f : f[i][1] \notin ColumnNames(model)}

\* the first item of f at which the loop of cast_filter stops
Failing(f) == {i \in DOMAIN f : ~CastItem(model, f[i][1], f[i][2]).ok}

First(S) == CHOOSE i \in S : \A j \in S : i <= j

\* C19 as stated: cast_filter fails with AttributeError naming the key
\* whenever the mapping has a key that is not a declared column, whatever
\* the key's value; no mapping is returned.
C19_UnknownKeyAlwaysAttributeError ==
    (last.op = "cast_filter" /\ Undeclared(last.args.data) # {}) =>
        /\ ~last.res.ok
        /\ last.res.exc = "AttributeError"
        /\ \E i \in Undeclared(last.args.data) :
              Name(last.args.data[i][1]) \in Range(last.res.msg)

\* C19 amended: with an undeclared key the call always fails and returns no
\* mapping; the failure is the AttributeError naming the key when no item
\* before it failed to cast, whatever the key's value, and else the
\* ValueError of the first item that failed.
C19_UnknownKeyFails ==
    (last.op = "cast_filter" /\ Undeclared(last.args.data) # {}) =>
        /\ ~last.res.ok
        /\ IF First(Failing(last.args.data)) = First(Undeclared(last.args.data))
           THEN /\ last.res.exc = "AttributeError"
                /\ Name(last.args.data[First(Undeclared(last.args.data))][1])
                       \in Range(last.res.msg)
           ELSE /\ First(Failing(last.args.data)) < First(Undeclared(last.args.data))
                /\ last.res.exc = "ValueError"
                /\ Name(last.args.data[First(Failing(last.args.data))][1])
                       \in Range(last.res.msg)
        /\ Len(last.args.data) = 1 => last.res.exc = "AttributeError"

\* a valid item, then the undeclared key with a null token as its value
C19_Witness ==
    /\ last.op = "cast_filter"
    /\ Len(last.args.data) = 2
    /\ last.args.data[1] = <<"id", StrV(<<"2","5">>)>>
    /\ last.args.data[2] = <<"ghost_field", StrV(<<"N","U","L","L">>)>>
    /\ ~last.res.ok
    /\ last.res.exc = "AttributeError"
    /\ Name("ghost_field") \in Range(last.res.msg)


\* the items of f that give a declared integer, float, boolean or timestamp
\* field a string that is no null token and that the field's parser rejects
Unparseable(f) ==
    {i \in DOMAIN f :
        /\ f[i][1] \in ColumnNames(model)
        /\ ColumnOf(model, f[i][1]).type \in {"Integer", "Float", "Boolean", "DateTime"}
        /\ f[i][2].t = "str"
        /\ Lower(f[i][2].v) \notin {<<"n","u","l","l">>, <<"n","o","n","e">>}
        /\ ~ApplyCaster(ColumnOf(model, f[i][1]).type, f[i][2].v).ok}

\* the result is cast_filter's one ValueError for item i of the mapping:
\* it names the key and holds neither the value nor a parser's message
UniformInvalidValue(i) ==
    /\ ~last.res.ok
    /\ last.res.exc = "ValueError"
    /\ last.res.from = "cast_filter"
    /\ last.res.msg = <<Lit("Invalid value for '"), Name(last.args.data[i][1]),
                        Lit("'. Please check the format.")>>
    /\ Fmt(last.args.data[i][2].v) \notin Range(last.res.msg)

\* C20 as stated: a string that cannot be parsed as the declared integer,
\* float, boolean or timestamp type makes cast_filter fail with the one
\* uniform ValueError that names the offending key and carries no parser
\* message, the same for the four types.
C20_UnparseableAlwaysValueError ==
    (last.op = "cast_filter" /\ Unparseable(last.args.data) # {}) =>
        \E i \in Unparseable(last.args.data) : UniformInvalidValue(i)

\* C20 amended: the call always fails; the failure is the uniform ValueError
\* naming the key of the first unparseable item when no undeclared key comes
\* before it, and else the AttributeError of that undeclared key.
C20_UnparseableFails ==
    (last.op = "cast_filter" /\ Unparseable(last.args.data) # {}) =>
        /\ ~last.res.ok
        /\ IF First(Failing(last.args.data)) = First(Unparseable(last.args.data))
           THEN UniformInvalidValue(First(Unparseable(last.args.data)))
           ELSE /\ First(Failing(last.args.data)) \in Undeclared(last.args.data)
                /\ First(Failing(last.args.data)) < First(Unparseable(last.args.data))
                /\ last.res.exc = "AttributeError"
        /\ Len(last.args.data) = 1 => UniformInvalidValue(1)

\* a float field given "abc" after a boolean field given "Yes"
C20_Witness ==
    /\ last.op = "cast_filter"
    /\ model = "MockUser"
    /\ last.args.data = << <<"is_active", StrV(<<"Y","e","s">>)>>,
                           <<"score", StrV(<<"a","b","c">>)>> >>
    /\ UniformInvalidValue(2)


\* the items of f that give a declared field a string whose lower-cased form
\* is "null" or "none"
NullTokenItems(f) ==
    {i \in DOMAIN f :
        /\ f[i][1] \in ColumnNames(model)
        /\ f[i][2].t = "str"
        /\ Lower(f[i][2].v) \in {<<"n","u","l","l">>, <<"n","o","n","e">>}}

\* C21: cast_filter maps a string whose lower-cased form is "null" or "none"
\* to the null value for a declared field of any type: the returned mapping
\* holds None under that key, a failure of the call is never about that
\* item, and a mapping of that one item is cast without failing, also where
\* the type's parser rejects the string.
C21_NullTokensCastToNull ==
    last.op = "cast_filter" =>
        \A i \in NullTokenItems(last.args.data) :
            /\ last.res.ok =>
                   /\ last.args.data[i][1] \in Keys(last.res.val.v)
                   /\ ValueAt(last.res.val.v, last.args.data[i][1]) = NoneV
            /\ ~last.res.ok => Name(last.args.data[i][1]) \notin Range(last.res.msg)
            /\ Len(last.args.data) = 1 => last.res.ok

\* "None" given to the timestamp field, whose parser rejects it
C21_Witness ==
    /\ last.op = "cast_filter"
    /\ model = "MockUser"
    /\ last.args.data = << <<"created_at", StrV(<<"N","o","n","e">>)>> >>
    /\ ~CastToDatetime(<<"N","o","n","e">>).ok
    /\ last.res.ok
    /\ last.res.val.v = << <<"created_at", NoneV>> >>


\* the mapping f has declared keys only and no value its field cannot take
Coercible(f) == Undeclared(f) = {} /\ Unparseable(f) = {}

\* the items of f that give a string to a text field or to a field of a
\* type without caster
TextItems(f) ==
    {i \in DOMAIN f :
        /\ f[i][1] \in ColumnNames(model)
        /\ ColumnOf(model, f[i][1]).type \notin {"Integer", "Float", "Boolean", "DateTime"}
        /\ f[i][2].t = "str"}

\* the call returned a mapping with the keys of its argument, in which the
\* values that were no strings are the argument's
SameKeysPassThrough ==
    /\ last.res.ok
    /\ last.res.val.t = "dict"
    /\ Len(last.res.val.v) = Len(last.args.data)
    /\ Keys(last.res.val.v) = Keys(last.args.data)
    /\ last.args.data = <<>> => last.res.val.v = <<>>
    /\ \A i \in DOMAIN last.args.data :
           last.args.data[i][2].t # "str" =>
               ValueAt(last.res.val.v, last.args.data[i][1]) = last.args.data[i][2]

\* C22 as stated: for a mapping of declared keys and coercible values,
\* cast_filter returns a mapping with the same key set, every value that
\* was no string unchanged and every text-field string kept as it is.
C22_TextStringsAlwaysKept ==
    (last.op = "cast_filter" /\ Coercible(last.args.data)) =>
        /\ SameKeysPassThrough
        /\ \A i \in TextItems(last.args.data) :
               ValueAt(last.res.val.v, last.args.data[i][1]) = last.args.data[i][2]

\* C22 amended: the same, but a text-field string is kept as it is unless
\* it is a null token, which becomes None as for every other type.
C22_SameKeysPassThrough ==
    (last.op = "cast_filter" /\ Coercible(last.args.data)) =>
        /\ SameKeysPassThrough
        /\ \A i \in TextItems(last.args.data) :
               ValueAt(last.res.val.v, last.args.data[i][1]) =
                   IF i \in NullTokenItems(last.args.data) THEN NoneV
                   ELSE last.args.data[i][2]

\* a Text field given "Yes" and the key given an integer
C22_Witness ==
    /\ last.op = "cast_filter"
    /\ model = "Sample"
    /\ last.args.data = << <<"description", StrV(<<"Y","e","s">>)>>, <<"id", IntV(7)>> >>
    /\ last.res.ok
    /\ last.res.val.v = last.args.data


\* C23: cast_filter never mutates its input mapping: when the call has
\* ended, with a mapping or with a failure, the caller's mapping holds the
\* items it held at the call, and a returned mapping is another object
\* than the one passed; the result agrees with the function's value.
C23_InputNotMutated ==
    last.op = "cast_filter" =>
        /\ last.args.filters = last.args.data
        /\ last.res.ok => last.res.val.id # "arg"
        /\ DictV(cast_filter(model, last.args.data)) = last.res

\* two strings cast to an integer and a boolean; the argument keeps the
\* strings
C23_Witness ==
    /\ last.op = "cast_filter"
    /\ model = "MockUser"
    /\ last.args.data = << <<"id", StrV(<<"2","5">>)>>,
                           <<"is_active", StrV(<<"Y","e","s">>)>> >>
    /\ last.args.filters = last.args.data
    /\ last.res.ok
    /\ last.res.val.v = << <<"id", IntV(25)>>, <<"is_active", BoolV(TRUE)>> >>


\* the items of f that give a declared boolean field a string
BooleanItems(f) ==
    {i \in DOMAIN f :
        /\ f[i][1] \in ColumnNames(model)
        /\ ColumnOf(model, f[i][1]).type = "Boolean"
        /\ f[i][2].t = "str"}

\* item i of the call's mapping came out as the boolean b: the caster gives
\* b, a returned mapping holds b under the key, and a mapping of that one
\* item is returned
CastsTo(i, b) ==
    /\ CastToBool(last.args.data[i][2].v) = Ok(BoolV(b))
    /\ last.res.ok => ValueAt(last.res.val.v, last.args.data[i][1]) = BoolV(b)
    /\ Len(last.args.data) = 1 => last.res.ok

\* C24: for a boolean field, a string whose lower-cased form is one of
\* true, 1, yes, y, t casts to true, one of false, 0, no, n, f casts to
\* false, and every other string that is no null token fails: the caster
\* raises ValueError and the call ends with a ValueError.
C24_BooleanTokens ==
    last.op = "cast_filter" =>
        \A i \in BooleanItems(last.args.data) :
            LET low == Lower(last.args.data[i][2].v)
            IN  IF low \in {<<"t","r","u","e">>, <<"1">>, <<"y","e","s">>, <<"y">>, <<"t">>}
                THEN CastsTo(i, TRUE)
                ELSE IF low \in {<<"f","a","l","s","e">>, <<"0">>, <<"n","o">>, <<"n">>, <<"f">>}
                THEN CastsTo(i, FALSE)
                ELSE IF low \in {<<"n","u","l","l">>, <<"n","o","n","e">>}
                THEN TRUE
                ELSE /\ ~CastToBool(last.args.data[i][2].v).ok
                     /\ CastToBool(last.args.data[i][2].v).exc = "ValueError"
                     /\ ~last.res.ok
                     /\ Len(last.args.data) = 1 => last.res.exc = "ValueError"

\* "maybe" given to the boolean field
C24_Witness ==
    /\ last.op = "cast_filter"
    /\ model = "MockUser"
    /\ last.args.data = << <<"is_active", StrV(<<"m","a","y","b","e">>)>> >>
    /\ ~last.res.ok
    /\ last.res.exc = "ValueError"


\* the items of f that give a declared timestamp field a string that is no
\* null token
TimestampItems(f) ==
    {i \in DOMAIN f :
        /\ f[i][1] \in ColumnNames(model)
        /\ ColumnOf(model, f[i][1]).type = "DateTime"
        /\ f[i][2].t = "str"
        /\ Lower(f[i][2].v) \notin {<<"n","u","l","l">>, <<"n","o","n","e">>}}

NotDigit(c) == ~IsDigit(c)

\* s is written YYYY-MM-DD with a month of 01..12 and a day of 01..28
DateWritten(s) ==
    /\ Len(s) = 10
    /\ SelectSeq(s, NotDigit) = <<"-", "-">>
    /\ s[5] = "-" /\ s[8] = "-"
    /\ DigitsVal(SubSeq(s, 1, 4)) >= 1
    /\ DigitsVal(SubSeq(s, 6, 7)) \in 1..12
    /\ DigitsVal(SubSeq(s, 9, 10)) \in 1..28

\* s is written YYYY-MM-DD HH:MM:SS with such a date and a time of day
DateTimeWritten(s) ==
    /\ Len(s) = 19
    /\ DateWritten(SubSeq(s, 1, 10))
    /\ SelectSeq(SubSeq(s, 11, 19), NotDigit) = <<" ", ":", ":">>
    /\ s[11] = " " /\ s[14] = ":" /\ s[17] = ":"
    /\ DigitsVal(SubSeq(s, 12, 13)) \in 0..23
    /\ DigitsVal(SubSeq(s, 15, 16)) \in 0..59
    /\ DigitsVal(SubSeq(s, 18, 19)) \in 0..59

\* the characters of s between its digits are those of neither format
NeitherFormat(s) ==
    SelectSeq(s, NotDigit) \notin {<<"-", "-">>, <<"-", "-", " ", ":", ":">>}

\* item i of the call's mapping came out as the timestamp d
CastsToTimestamp(i, d) ==
    /\ CastToDatetime(last.args.data[i][2].v) = Ok(DtV(d))
    /\ last.res.ok => ValueAt(last.res.val.v, last.args.data[i][1]) = DtV(d)
    /\ Len(last.args.data) = 1 => last.res.ok

\* C25: for a timestamp field, a string written as a full date and time
\* yields exactly that timestamp, a string written as a date only yields
\* midnight of that date (the second format is reached after the first
\* did not match), and a string in neither format fails with ValueError.
C25_TimestampFormats ==
    last.op = "cast_filter" =>
        \A i \in TimestampItems(last.args.data) :
            LET s == last.args.data[i][2].v
            IN  IF DateTimeWritten(s)
                THEN CastsToTimestamp(i, <<DigitsVal(SubSeq(s, 1, 4)),
                                           DigitsVal(SubSeq(s, 6, 7)),
                                           DigitsVal(SubSeq(s, 9, 10)),
                                           DigitsVal(SubSeq(s, 12, 13)),
                                           DigitsVal(SubSeq(s, 15, 16)),
                                           DigitsVal(SubSeq(s, 18, 19))>>)
                ELSE IF DateWritten(s)
                THEN /\ ~Strptime(s, DATETIME_FORMATS[1]).ok
                     /\ CastsToTimestamp(i, <<DigitsVal(SubSeq(s, 1, 4)),
                                              DigitsVal(SubSeq(s, 6, 7)),
                                              DigitsVal(SubSeq(s, 9, 10)), 0, 0, 0>>)
                ELSE IF NeitherFormat(s)
                THEN /\ ~CastToDatetime(s).ok
                     /\ CastToDatetime(s).exc = "ValueError"
                     /\ ~last.res.ok
                     /\ Len(last.args.data) = 1 => last.res.exc = "ValueError"
                ELSE TRUE

\* the date-only string of the unit test cast to midnight
C25_Witness ==
    /\ last.op = "cast_filter"
    /\ model = "MockUser"
    /\ last.args.data =
           << <<"created_at", StrV(<<"2","0","2","3","-","1","2","-","2","5">>)>> >>
    /\ last.res.ok
    /\ last.res.val.v = << <<"created_at", DtV(<<2023, 12, 25, 0, 0, 0>>)>> >>


\* the exception classes of exceptions.py
AppExceptions == {"AppException", "NotFoundException", "DuplicateError",
                  "InvalidOperationError"}

\* C26 as stated: the custom handlers are on the application server.py
\* builds: a request that ended with DuplicateError is answered 409 with
\* the exception's message as detail, NotFoundException 404, any other
\* AppException 400, and 500 is the answer to other exceptions only.
C26_CustomHandlersAnswer ==
    \A c \in DOMAIN calls :
        (calls[c].pc = "responded" /\ ~calls[c].res.ok) =>
            /\ calls[c].res.exc = "DuplicateError" =>
                   calls[c].response = JSONResponse(409, calls[c].res.msg)
            /\ calls[c].res.exc = "NotFoundException" =>
                   calls[c].response = JSONResponse(404, calls[c].res.msg)
            /\ calls[c].res.exc \in AppExceptions \ {"DuplicateError", "NotFoundException"} =>
                   calls[c].response = JSONResponse(400, calls[c].res.msg)
            /\ calls[c].response.status_code = 500 =>
                   calls[c].res.exc \notin AppExceptions


\* the name request c carries
NameOf(cs, c) == ValueAt(cs[c].data, "name")

\* the requests whose create_new_sample has its new sample
Returning(cs) ==
    {c \in DOMAIN cs : cs[c].pc \in {"created", "returned", "responded"} /\ cs[c].res.ok}

\* no two samples of the store st have the same name, and the requests of
\* cs that have a new sample have different ones, each of them in st
OnePerName(st, cs) ==
    /\ \A r1, r2 \in st : r1["name"] = r2["name"] => r1 = r2
    /\ \A c \in Returning(cs) :
           /\ cs[c].res.val.v \in st
           /\ cs[c].res.val.v["name"] = NameOf(cs, c)
    /\ \A c1, c2 \in Returning(cs) : NameOf(cs, c1) = NameOf(cs, c2) => c1 = c2

\* C27: under every interleaving of the concurrent create_new_sample calls
\* the store never holds two samples of one name and at most one call has
\* a Sample of that name; a call that passed the existence check and then
\* loses ends with the backend's IntegrityError as raised, not with
\* DuplicateError, and leaves the store as it was.
C27_DuplicateNameRace ==
    [][ /\ OnePerName(store', calls')
        /\ \A c \in DOMAIN calls :
               (calls[c].pc = "create" /\ calls'[c].pc = "raised") =>
                   /\ calls'[c].res = IntegrityError
                   /\ calls'[c].res.exc # "DuplicateError"
                   /\ store' = store
                   /\ \E r \in store : r["name"] = NameOf(calls, c)
      ]_vars

\* two requests with one name: both passed the existence check, one has
\* its sample and the other the IntegrityError
C27_Witness ==
    \E c1, c2 \in DOMAIN calls :
        /\ c1 # c2
        /\ calls[c1].pc = "returned"
        /\ calls[c1].res.val.v \in store
        /\ calls[c2].pc = "raised"
        /\ calls[c2].res = IntegrityError
        /\ NameOf(calls, c1) = NameOf(calls, c2)


\* C28: a casting failure inside create, update or their async forms (for
\* update, on a key that has a row) leaves the store as it was: the call
\* ends with the failure of the cast, no row is added, no field of the
\* loaded entity is changed, also when earlier keys of the mapping were
\* valid, and no commit is issued.
C28_CastFailureLeavesStore ==
    [][ \A op \in {"create", "async_create", "update", "async_update"} :
            ( /\ Calls(op)
              /\ ~Castable(last'.args.data)
              /\ op \in {"update", "async_update"} => Present(last'.args.pk) ) =>
                /\ last'.res = cast_filter(model, last'.args.data)
                /\ ~last'.res.ok
                /\ store' = store
                /\ tx' = tx
                /\ nextId' = nextId
                /\ \A i \in DOMAIN last'.log : last'.log[i] \notin {"add", "commit", "flush"}
      ]_vars

\* update of a stored user with a valid is_active before an age that
\* cannot be cast: at a later time the row is as it was created
C28_Witness ==
    /\ last.op = "update"
    /\ model = "TestUser"
    /\ last.args.data = << <<"is_active", StrV(<<"N","O">>)>>,
                           <<"age", StrV(<<"a","b","c">>)>> >>
    /\ ~last.res.ok
    /\ last.res.exc = "ValueError"
    /\ clock = MaxClock
    /\ \E r \in store :
           /\ r["id"] = IntV(last.args.pk)
           /\ r["is_active"] = BoolV(TRUE)
           /\ r["updated_at"] = Now(0)
    /\ tx = store


\* C29: what the blocking delete or soft_delete left pending is made
\* durable by the next create that returns or update that succeeds on the
\* session: the call commits the whole transaction, so that every row
\* pending as deleted is gone from the store and every row pending as
\* changed is stored as changed, and a rollback by the caller afterwards
\* gives the store as committed, without restoring anything.
C29_PendingMadeDurable ==
    [][ /\ \A op \in {"create", "update"} :
               (Calls(op) /\ last'.res.ok /\ last'.res.val # NoneV) =>
                   /\ store' = tx'
                   /\ \A r \in store \ tx :
                          RowsWithKey(tx, r["id"].v) = {} =>
                              RowsWithKey(store', r["id"].v) = {}
                   /\ \A r \in tx \ store :
                          \/ r \in store'
                          \/ op = "update" /\ r["id"] = IntV(last'.args.pk)
        /\ Calls("rollback") => (store' = store /\ tx' = store)
      ]_vars

\* create returned with key 2 as the one row of the store: the row with
\* key 1 was deleted before this call, and the deletion is committed
C29_Witness ==
    /\ last.op = "create"
    /\ last.res.ok
    /\ last.res.val.v["id"] = IntV(2)
    /\ store = {last.res.val.v}
    /\ tx = store


\* the rows of the session's view that are marked as deleted
Marked == {r \in tx : "deleted_at" \in DOMAIN r /\ r["deleted_at"] # NoneV}

\* C30: soft deletion does not hide a row from reads.  A row marked as
\* deleted is returned by get_by_pk, is returned by get_one when it is the
\* one match, is counted in totalCount and listed on its page by get_list
\* (no filter drawn names deleted_at); update, delete and soft_delete on
\* its key find it, and soft_delete returns true again.  The same for the
\* async forms.
C30_SoftDeletedStillRead ==
    [][ \A r \in Marked :
          /\ ((Calls("get_by_pk") \/ Calls("async_get_by_pk"))
                 /\ IntV(last'.args.pk) = r["id"]) =>
                 last'.res = Ok(Entity(r))
          /\ ((Calls("get_one") \/ Calls("async_get_one"))
                 /\ Castable(last'.args.data) /\ Matching(last'.args.data) = {r}) =>
                 last'.res = Ok(Entity(r))
          /\ ((Calls("get_list") \/ Calls("async_get_list")) /\ last'.res.ok
                 /\ r \in Matching(last'.args.data)) =>
                 /\ last'.res.val.total = Cardinality(Matching(last'.args.data))
                 /\ last'.res.val.total >= 1
                 /\ (last'.res.val.total = 1 /\ last'.args.skip = 0
                        /\ last'.args.limit >= 1) =>
                        last'.res.val.items = <<r>>
          /\ ((Calls("update") \/ Calls("async_update"))
                 /\ IntV(last'.args.pk) = r["id"] /\ Castable(last'.args.data)) =>
                 /\ last'.res # Ok(NoneV)
                 /\ ~last'.res.ok => last'.res.exc = "IntegrityError"
                 /\ last'.res.ok => last'.res.val.v["deleted_at"] = r["deleted_at"]
          /\ ((Calls("delete") \/ Calls("async_delete"))
                 /\ IntV(last'.args.pk) = r["id"]) =>
                 /\ last'.res = Ok(BoolV(TRUE))
                 /\ RowsWithKey(tx', last'.args.pk) = {}
          /\ ((Calls("soft_delete") \/ Calls("async_soft_delete"))
                 /\ IntV(last'.args.pk) = r["id"]) =>
                 /\ last'.res = Ok(BoolV(TRUE))
                 /\ \E n \in RowsWithKey(tx', last'.args.pk) : n["deleted_at"] # NoneV
      ]_vars

\* get_list with no filter lists and counts the one row of the table,
\* which is marked as deleted, the mark being committed
C30_Witness ==
    /\ last.op = "get_list"
    /\ last.args.data = <<>>
    /\ last.res.ok
    /\ last.res.val.total = 1
    /\ Len(last.res.val.items) = 1
    /\ last.res.val.items[1] \in Marked
    /\ last.res.val.items[1] \in store

====
